---- MODULE Spec2Model ----
(***************************************************************************)
(* The Database cog of emote-collector (bmintz/emoji-vacuum): the emotes   *)
(* table, the usage history, the backend guilds that hold the emotes, the  *)
(* user/guild options and the decay loop, as a state machine.              *)
(*                                                                         *)
(* Two versions of the cog are in the repository: cogs/db.py (older) and   *)
(* emote_collector/extensions/db.py (newer).  The machine follows the      *)
(* newer one; where a definition follows the older one its comment says so.*)
(*                                                                         *)
(* Every action is one step of a coroutine between two suspension points   *)
(* (one store query or one call of the Discord HTTP API).                  *)
(***************************************************************************)
EXTENDS Integers, Sequences, FiniteSets, TLC

(***************************************************************************)
(* Values                                                                  *)
(***************************************************************************)

\* Emote names of the model; "Foo" and "foo" differ only in capitalization.
Names == {"Foo", "foo", "bar"}

\* str.lower() / SQL LOWER() on the names of the model.
LOWER(n) == IF n = "Foo" THEN "foo" ELSE n

\* User ids, and the users bot.is_owner() accepts.
Users == {1, 2}
BotOwners == {2}

\* Python's None where a user id is expected (user_id=None).
None == 0

\* SQL NULL / Python None for a nullable column: the empty tuple; a value v
\* is <<v>>.
NULL == <<>>
Some(v) == <<v>>

\* The backend guilds (the rows of _guilds).
Guilds == {1, 2}

\* How many requests a behaviour of the model starts.
MaxOps == 2

\* The clock runs from 0 to MaxTime (weeks); an emote's usage history holds at
\* most MaxUses events in the stores the decay query is tried on.
MaxTime == 5
MaxUses == 2

\* A query traversed by a cursor has at most MaxRows rows; the pool has
\* PoolSize connections, and Consumers are the coroutines that traverse.
MaxRows == 2
PoolSize == 1
Consumers == {1, 2}
Time == 0 .. MaxTime

\* _process_decay_config's defaults: datetime.timedelta(weeks=4), and 2 uses.
DefaultCutoffTime == 4
DefaultCutoffUsage == 2

\* The emotes stored before the first request of a behaviour (at most), and
\* the ids of the model: those, and the ids the Discord API hands out to the
\* emotes the requests create.
StoredIds == {1, 2}
Ids == 1 .. (Cardinality(StoredIds) + MaxOps)

\* The per-guild, per-kind limit free_guild tests against.
Capacity == 50

\* The coroutines that run the requests of the model concurrently.
Procs == {1, 2}

\* The length the column emotes.description is declared with
\* (character varying(n)), scaled down, and the descriptions requests come
\* with: none, one of exactly that length, one a character longer.
DescriptionLimit == 4
Descriptions == {NULL, Some("text"), Some("texts")}
Reasons == {NULL, Some("spam")}

\* The calls of find_backend_guilds a behaviour may hold: the task made by
\* __init__ and the calls made after it.
Finders == {1, 2}

\* The guilds the bot may be in: a name (the part startswith() looks at, and
\* what follows it) and the owner's user id.  Guilds 1 and 2 are backend
\* guilds of a bot owner, guild 3 has the name of one but another owner,
\* guild 4 is a bot owner's guild of another name.
BotGuilds ==
    {[id |-> 1, name |-> <<"EmoteBackend", " 0">>, owner |-> 2],
     [id |-> 2, name |-> <<"EmojiBackend", " 1">>, owner |-> 2],
     [id |-> 3, name |-> <<"EmojiBackend", " 2">>, owner |-> 1],
     [id |-> 4, name |-> <<"Emote", " Collector Support">>, owner |-> 2]}

VARIABLES
    emotes,      \* table emotes: id -> row, for the ids that have a row
    usage,       \* table emote_usage_history: id -> sequence of event times
    user_opt,    \* table user_opt: user id -> [state, blacklist_reason]
    guild_opt,   \* table guild_opt: guild id -> [state]
    backlog,     \* rows of emotes the model does not track one by one:
                 \* guild -> animated -> how many
    discord,     \* the emotes that exist in the backend guilds: id -> [guild, name, animated]
    nextId,      \* the id the next create_custom_emoji returns
    task,        \* the coroutines: p -> its operation, position and locals
    now,         \* the clock (utcnow()), in weeks
    started,     \* how many requests have started
    config,      \* bot.config['decay'] after _process_decay_config
    decay,       \* the decay_loop coroutine: its position, its cursor, its locals
    everUnpreserved, \* history: the ids of the emotes that have had preserve = FALSE
    pool,        \* bot.pool: the number of free connections
    cursor,      \* per consumer, its traversal of a _database_emote_cursor
    guilds,      \* the attribute self.guilds: not set, or a frozenset of guild ids
    dispatched,  \* the 'backend_guild_enumeration' events dispatched, in order
    finder,      \* the calls of find_backend_guilds: call -> position and locals
    backend,     \* table _guilds: the ids of its rows
    overlap      \* history: the most calls of create_emote in progress at once

\* What the decay loop never touches, and what the requests on the emotes
\* never touch.
directory == <<guilds, dispatched, finder, backend>>
aside == <<pool, cursor, directory, overlap>>
rest == <<config, decay, aside>>

\* What a traversal never touches.
beside == <<emotes, usage, user_opt, guild_opt, backlog, discord, nextId, task, now,
            started, everUnpreserved, config, decay, directory, overlap>>

vars == <<emotes, usage, user_opt, guild_opt, backlog, discord, nextId, task, now,
          started, everUnpreserved, rest>>

(***************************************************************************)
(* The store                                                               *)
(***************************************************************************)

\* f without the key k.
Without(f, k) == [i \in DOMAIN f \ {k} |-> f[i]]

\* f with f[k] = v.
With(f, k, v) == [i \in DOMAIN f \cup {k} |-> IF i = k THEN v ELSE f[i]]

\* SELECT * FROM emotes WHERE LOWER(name) = LOWER($1): the matching ids.
EmotesNamed(name) == {i \in DOMAIN emotes : LOWER(emotes[i].name) = LOWER(name)}

\* A variant of get_emote that compares the names as they are written.
get_emote_exact(name) ==
    IF {i \in DOMAIN emotes : emotes[i].name = name} = {} THEN NULL
    ELSE Some(emotes[CHOOSE i \in DOMAIN emotes : emotes[i].name = name])

\* get_emote: fetchrow gives one matching row, or None (EmoteNotFoundError).
get_emote(name) ==
    IF EmotesNamed(name) = {} THEN NULL
    ELSE Some(emotes[CHOOSE i \in EmotesNamed(name) : TRUE])

\* The emotes table's unique index on LOWER(name): whether a row of id `id`
\* may carry `name`.
NoUniqueIndex(id, name) == TRUE
UniqueIndexAllows(id, name) ==
    \A i \in DOMAIN emotes \ {id} : LOWER(emotes[i].name) # LOWER(name)

\* The row INSERT INTO emotes (name, id, author, animated, guild) makes; the
\* other columns take the table's defaults.
NewRow(name, id, author, animated, guild) ==
    [id |-> id, name |-> name, author |-> author, animated |-> animated,
     guild |-> guild, description |-> NULL, preserve |-> FALSE,
     created |-> now, nsfw |-> "SFW"]

\* The view guilds: per backend guild, the number of emote rows of each kind.
GuildUsage(g, animated) ==
    backlog[g][animated]
    + Cardinality({i \in DOMAIN emotes :
                     emotes[i].guild = g /\ emotes[i].animated = animated})

\* free_guild: the guilds the query may return (ORDER BY random() LIMIT 1
\* picks any one of them; none: NoMoreSlotsError).
FreeGuildsAll(animated) == Guilds
FreeGuildsAtCapacity(animated) == {g \in Guilds : GuildUsage(g, animated) <= Capacity}
FreeGuilds(animated) == {g \in Guilds : GuildUsage(g, animated) < Capacity}

\* get_user_blacklist: the reason, or NULL (also when the user has no row).
get_user_blacklist(u) ==
    IF u \in DOMAIN user_opt THEN user_opt[u].blacklist_reason ELSE NULL

\* Python truthiness of an optional string: not None and not empty.
Truthy(v) == v # NULL /\ v[1] # ""

\* bot.is_owner(user) or emote.author == user.id, with the user_id=None bypass.
is_owner_author_only(emote, user_id) == user_id = None \/ emote.author = user_id
is_owner(emote, user_id) ==
    \/ user_id = None
    \/ user_id \in BotOwners
    \/ emote.author = user_id

\* DELETE FROM emotes WHERE id = $1; the usage history's rows reference the
\* emote and go with it (ON DELETE CASCADE).
EmotesAfterDelete(id) == IF id \in DOMAIN emotes THEN Without(emotes, id) ELSE emotes
UsageAfterDelete(id) == [usage EXCEPT ![id] = <<>>]

(***************************************************************************)
(* The coroutines                                                          *)
(***************************************************************************)

Idle ==
    [op |-> "none", pc |-> "idle", name |-> "", new_name |-> "",
     user_id |-> None, animated |-> FALSE, description |-> NULL,
     emote |-> NULL, guild_id |-> 0, emote_id |-> 0, state |-> NULL,
     by_mod |-> FALSE, res |-> <<>>]

\* The coroutine p ends: op returned (res = <<"ok">>) or raised (res = the
\* exception and its arguments).
Return(p, op, res) ==
    task' = [task EXCEPT ![p] = [Idle EXCEPT !.op = op, !.res = res]]

Goto(p, pc) == task' = [task EXCEPT ![p].pc = pc]

At(p, op, pc) == task[p].op = op /\ task[p].pc = pc

\* A request starts, within the model's budget of requests.
Start == started < MaxOps /\ started' = started + 1

(***************************************************************************)
(* create_emote                                                            *)
(***************************************************************************)

\* How many calls of create_emote are in progress among the coroutines t.
InProgress(t) == Cardinality({q \in Procs : t[q].op = "create" /\ t[q].pc # "idle"})

\* The blacklist lookup that opens create_emote in cogs/db.py.
BlacklistNotConsulted(author_id) == NULL
BlacklistConsulted(author_id) == get_user_blacklist(author_id)

\* create_emote is called; cogs/db.py: the author's blacklist entry is read
\* first and a blacklisted author is refused there.
create_emote(p, name, author_id, animated) ==
    /\ task[p].pc = "idle"
    /\ Start
    /\ LET blacklist_reason == BlacklistConsulted(author_id) IN
       IF Truthy(blacklist_reason)
       THEN Return(p, "create", <<"UserBlacklisted", blacklist_reason[1]>>)
       ELSE task' = [task EXCEPT ![p] =
                [Idle EXCEPT !.op = "create", !.pc = "ensure", !.name = name,
                             !.user_id = author_id, !.animated = animated]]
    /\ overlap' = IF InProgress(task') > overlap THEN InProgress(task') ELSE overlap
    /\ UNCHANGED <<emotes, usage, user_opt, guild_opt, backlog, discord, nextId, now, everUnpreserved, config, decay, pool, cursor, directory>>

\* await self.ensure_emote_does_not_exist(name)
create_ensure(p) ==
    /\ At(p, "create", "ensure")
    /\ IF get_emote(task[p].name) # NULL
       THEN Return(p, "create", <<"EmoteExistsError">>)
       ELSE Goto(p, "free_guild")
    /\ UNCHANGED <<emotes, usage, user_opt, guild_opt, backlog, discord, nextId, now, started, everUnpreserved, rest>>

\* guild_id = await self.free_guild(animated)
create_free_guild(p) ==
    /\ At(p, "create", "free_guild")
    /\ IF FreeGuilds(task[p].animated) = {}
       THEN Return(p, "create", <<"NoMoreSlotsError">>)
       ELSE \E g \in FreeGuilds(task[p].animated) :
                task' = [task EXCEPT ![p].guild_id = g, ![p].pc = "http"]
    /\ UNCHANGED <<emotes, usage, user_opt, guild_opt, backlog, discord, nextId, now, started, everUnpreserved, rest>>

\* emote_data = await self.bot.http.create_custom_emoji(...): Discord makes
\* the emote and gives it the next id, or refuses (discord.HTTPException).
create_http(p) ==
    /\ At(p, "create", "http")
    /\ \/ /\ nextId \in Ids
          /\ discord' = With(discord, nextId,
                 [guild |-> task[p].guild_id, name |-> task[p].name,
                  animated |-> task[p].animated])
          /\ nextId' = nextId + 1
          /\ task' = [task EXCEPT ![p].emote_id = nextId, ![p].pc = "insert"]
       \/ /\ Return(p, "create", <<"HTTPException">>)
          /\ UNCHANGED <<discord, nextId>>
    /\ UNCHANGED <<emotes, usage, user_opt, guild_opt, backlog, now, started, everUnpreserved, rest>>

\* INSERT INTO emotes (name, id, author, animated, guild) ... RETURNING *
create_insert(p) ==
    /\ At(p, "create", "insert")
    /\ IF UniqueIndexAllows(task[p].emote_id, task[p].name)
       THEN /\ emotes' = With(emotes, task[p].emote_id,
                   NewRow(task[p].name, task[p].emote_id, task[p].user_id,
                          task[p].animated, task[p].guild_id))
            /\ everUnpreserved' = everUnpreserved \cup {task[p].emote_id}
            /\ Return(p, "create", <<"ok">>)
       ELSE /\ Return(p, "create", <<"UniqueViolationError">>)
            /\ UNCHANGED <<emotes, everUnpreserved>>
    /\ UNCHANGED <<usage, user_opt, guild_opt, backlog, discord, nextId, now, started, rest>>

(***************************************************************************)
(* remove_emote                                                            *)
(***************************************************************************)

\* remove_emote(name, user_id) is called: get_emote, then owner_check on the
\* row read.  (owner_check reads only that row and the bot's owner, so it is
\* taken in the step of the query.)
remove_emote(p, name, user_id) ==
    /\ task[p].pc = "idle"
    /\ Start
    /\ LET emote == get_emote(name) IN
       IF emote = NULL
       THEN Return(p, "remove", <<"EmoteNotFoundError">>)
       ELSE IF ~ is_owner(emote[1], user_id)
       THEN Return(p, "remove", <<"PermissionDeniedError", emote[1].name>>)
       ELSE task' = [task EXCEPT ![p] =
                [Idle EXCEPT !.op = "remove", !.pc = "http", !.emote = emote]]
    /\ UNCHANGED <<emotes, usage, user_opt, guild_opt, backlog, discord, nextId, now, everUnpreserved, rest>>

\* await self.bot.http.delete_custom_emoji(emote.guild, emote.id): the emote
\* is deleted; or it is not there (discord.NotFound, logged and passed over);
\* or Discord refuses (another discord.HTTPException, which propagates).
remove_http_left_out(p) ==
    /\ At(p, "remove", "http")
    /\ Goto(p, "delete")
    /\ UNCHANGED <<emotes, usage, user_opt, guild_opt, backlog, discord, nextId, now, started, everUnpreserved, rest>>
\* A variant in which the answer "not there" is raised to the caller.
remove_http_not_found_raised(p) ==
    /\ At(p, "remove", "http")
    /\ LET id == task[p].emote[1].id IN
       \/ /\ id \in DOMAIN discord
          /\ discord' = Without(discord, id)
          /\ Goto(p, "delete")
       \/ /\ id \notin DOMAIN discord
          /\ discord' = discord
          /\ Return(p, task[p].op, <<"NotFound">>)
       \/ /\ discord' = discord
          /\ Return(p, task[p].op, <<"HTTPException">>)
    /\ UNCHANGED <<emotes, usage, user_opt, guild_opt, backlog, nextId, now, started, everUnpreserved, rest>>
remove_http(p) ==
    /\ At(p, "remove", "http")
    /\ LET id == task[p].emote[1].id IN
       \/ /\ id \in DOMAIN discord
          /\ discord' = Without(discord, id)
          /\ Goto(p, "delete")
       \/ /\ id \notin DOMAIN discord
          /\ discord' = discord
          /\ Goto(p, "delete")
       \/ /\ discord' = discord
          /\ Return(p, task[p].op, <<"HTTPException">>)
    /\ UNCHANGED <<emotes, usage, user_opt, guild_opt, backlog, nextId, now, started, everUnpreserved, rest>>

\* await self.bot.pool.execute('DELETE FROM emotes WHERE id = $1', emote.id)
remove_delete(p) ==
    /\ At(p, "remove", "delete")
    /\ emotes' = EmotesAfterDelete(task[p].emote[1].id)
    /\ usage' = UsageAfterDelete(task[p].emote[1].id)
    /\ Return(p, "remove", <<"ok">>)
    /\ UNCHANGED <<user_opt, guild_opt, backlog, discord, nextId, now, started, everUnpreserved, rest>>

(***************************************************************************)
(* rename_emote                                                            *)
(***************************************************************************)

\* emote = await self.get_emote(old_name); await self.owner_check(emote, user_id)
RenameLookup(p, old_name, new_name, user_id) ==
    LET emote == get_emote(old_name) IN
    IF emote = NULL
    THEN Return(p, "rename", <<"EmoteNotFoundError">>)
    ELSE IF ~ is_owner(emote[1], user_id)
    THEN Return(p, "rename", <<"PermissionDeniedError", emote[1].name>>)
    ELSE task' = [task EXCEPT ![p] =
             [Idle EXCEPT !.op = "rename", !.pc = "http",
                          !.new_name = new_name, !.emote = emote]]

\* A variant that tests the new name on every rename.
ChecksNewNameAlways(old_name, new_name) == TRUE

\* A variant that never tests the new name.
ChecksNewNameNever(old_name, new_name) == FALSE

\* if old_name.lower() != new_name.lower():
ChecksNewName(old_name, new_name) == LOWER(old_name) # LOWER(new_name)

\* rename_emote is called: unless new_name is another capitalization of
\* old_name, ensure_emote_does_not_exist(new_name) is awaited first.
rename_emote(p, old_name, new_name, user_id) ==
    /\ task[p].pc = "idle"
    /\ Start
    /\ IF ChecksNewName(old_name, new_name)
       THEN IF get_emote(new_name) # NULL
            THEN Return(p, "rename", <<"EmoteExistsError">>)
            ELSE task' = [task EXCEPT ![p] =
                     [Idle EXCEPT !.op = "rename", !.pc = "get",
                                  !.name = old_name, !.new_name = new_name,
                                  !.user_id = user_id]]
       ELSE RenameLookup(p, old_name, new_name, user_id)
    /\ UNCHANGED <<emotes, usage, user_opt, guild_opt, backlog, discord, nextId, now, everUnpreserved, rest>>

rename_get(p) ==
    /\ At(p, "rename", "get")
    /\ RenameLookup(p, task[p].name, task[p].new_name, task[p].user_id)
    /\ UNCHANGED <<emotes, usage, user_opt, guild_opt, backlog, discord, nextId, now, started, everUnpreserved, rest>>

\* await self.bot.http.edit_custom_emoji(emote.guild, emote.id, name=new_name)
rename_http(p) ==
    /\ At(p, "rename", "http")
    /\ LET id == task[p].emote[1].id IN
       \/ /\ id \in DOMAIN discord
          /\ discord' = [discord EXCEPT ![id].name = task[p].new_name]
          /\ Goto(p, "update")
       \/ /\ id \notin DOMAIN discord
          /\ discord' = discord
          /\ Return(p, "rename", <<"NotFound">>)
       \/ /\ discord' = discord
          /\ Return(p, "rename", <<"HTTPException">>)
    /\ UNCHANGED <<emotes, usage, user_opt, guild_opt, backlog, nextId, now, started, everUnpreserved, rest>>

\* UPDATE emotes SET name = $2 WHERE id = $1 RETURNING *; with no row left,
\* fetchrow gives None and DatabaseEmote(None) raises TypeError.
rename_update(p) ==
    /\ At(p, "rename", "update")
    /\ LET id == task[p].emote[1].id IN
       IF id \notin DOMAIN emotes
       THEN Return(p, "rename", <<"TypeError">>) /\ UNCHANGED emotes
       ELSE IF UniqueIndexAllows(id, task[p].new_name)
       THEN /\ emotes' = [emotes EXCEPT ![id].name = task[p].new_name]
            /\ Return(p, "rename", <<"ok">>)
       ELSE Return(p, "rename", <<"UniqueViolationError">>) /\ UNCHANGED emotes
    /\ UNCHANGED <<usage, user_opt, guild_opt, backlog, discord, nextId, now, started, everUnpreserved, rest>>

(***************************************************************************)
(* set_emote_description                                                   *)
(***************************************************************************)

set_emote_description(p, name, user_id, description) ==
    /\ task[p].pc = "idle"
    /\ Start
    /\ LET emote == get_emote(name) IN
       IF emote = NULL
       THEN Return(p, "describe", <<"EmoteNotFoundError">>)
       ELSE IF ~ is_owner(emote[1], user_id)
       THEN Return(p, "describe", <<"PermissionDeniedError", emote[1].name>>)
       ELSE task' = [task EXCEPT ![p] =
                [Idle EXCEPT !.op = "describe", !.pc = "update",
                             !.description = description, !.emote = emote]]
    /\ UNCHANGED <<emotes, usage, user_opt, guild_opt, backlog, discord, nextId, now, everUnpreserved, rest>>

\* Whether the store refuses `description` for the column
\* (asyncpg.StringDataRightTruncationError).
StringDataRightTruncation(description) ==
    description # NULL /\ Len(description[1]) > DescriptionLimit

\* The message of that exception, in pieces: "value too long for type
\* character varying(n)".
TruncationMessage ==
    <<"value too long for type ", "character varying", "(", DescriptionLimit, ")">>

\* re.search(r'character varying\((\d+)\)', message)[1], as an int: the
\* number between the brackets that follow "character varying".
SearchLimit(message) ==
    LET k == CHOOSE i \in 1 .. Len(message) - 3 :
                 /\ message[i] = "character varying"
                 /\ message[i + 1] = "("
                 /\ message[i + 2] \in Nat
                 /\ message[i + 3] = ")"
    IN  message[k + 2]

\* A variant of the handler that raises without the limit
\* (raise errors.EmoteDescriptionTooLong from exception).
DescriptionTooLongWithoutLimit(emote, description, message) ==
    <<"EmoteDescriptionTooLong">>

\* raise errors.EmoteDescriptionTooLongError(emote.name, len(description), limit)
DescriptionTooLongError(emote, description, message) ==
    <<"EmoteDescriptionTooLongError", emote.name, Len(description[1]), SearchLimit(message)>>

\* UPDATE emotes SET DESCRIPTION = $2 WHERE id = $1 RETURNING *, and the
\* handler of asyncpg.StringDataRightTruncationError.
describe_update(p) ==
    /\ At(p, "describe", "update")
    /\ LET id == task[p].emote[1].id IN
       IF id \notin DOMAIN emotes
       THEN Return(p, "describe", <<"TypeError">>) /\ UNCHANGED emotes
       ELSE IF StringDataRightTruncation(task[p].description)
       THEN /\ Return(p, "describe",
                      DescriptionTooLongError(task[p].emote[1], task[p].description,
                                              TruncationMessage))
            /\ UNCHANGED emotes
       ELSE /\ emotes' = [emotes EXCEPT ![id].description = task[p].description]
            /\ Return(p, "describe", <<"ok">>)
    /\ UNCHANGED <<usage, user_opt, guild_opt, backlog, discord, nextId, now, started, everUnpreserved, rest>>

(***************************************************************************)
(* toggle_emote_nsfw                                                       *)
(***************************************************************************)

\* The values the column nsfw takes.
NsfwStatuses == {"SFW", "SELF_NSFW", "MOD_NSFW"}

\* DatabaseEmote.is_nsfw: self.nsfw.endswith('NSFW'), which of the three
\* values holds for the two that end in "_NSFW" and not for "SFW".
is_nsfw(emote) == emote.nsfw \in {"SELF_NSFW", "MOD_NSFW"}

\* new_nsfw_status: the status to store, "BadArgument" where it raises,
\* "None" where it falls off its end (returns None).
new_nsfw_status(emote, by_mod) ==
    LET desired_status == ~ is_nsfw(emote) IN
    IF by_mod THEN (IF desired_status THEN "MOD_NSFW" ELSE "SFW")
    ELSE IF desired_status THEN "SELF_NSFW"
    ELSE IF emote.nsfw = "MOD_NSFW" THEN "BadArgument"
    ELSE IF emote.nsfw = "SELF_NSFW" THEN "SFW"
    ELSE "None"

\* toggle_emote_nsfw takes a DatabaseEmote: the caller has read it with
\* get_emote before the call.
nsfw_get_emote(p, name, by_mod) ==
    /\ task[p].pc = "idle"
    /\ Start
    /\ LET emote == get_emote(name) IN
       IF emote = NULL
       THEN Return(p, "nsfw", <<"EmoteNotFoundError">>)
       ELSE task' = [task EXCEPT ![p] =
                [Idle EXCEPT !.op = "nsfw", !.pc = "update",
                             !.emote = emote, !.by_mod = by_mod]]
    /\ UNCHANGED <<emotes, usage, user_opt, guild_opt, backlog, discord, nextId, now, everUnpreserved, rest>>

\* toggle_emote_nsfw(emote, by_mod): the new status is worked out from the
\* emote passed, then UPDATE emotes SET nsfw = $2 WHERE id = $1 RETURNING *
\* (no row left: DatabaseEmote(None) raises TypeError).
toggle_emote_nsfw(p) ==
    /\ At(p, "nsfw", "update")
    /\ LET id == task[p].emote[1].id
           new_status == new_nsfw_status(task[p].emote[1], task[p].by_mod)
       IN  IF new_status = "BadArgument"
           THEN Return(p, "nsfw", <<"BadArgument">>) /\ UNCHANGED emotes
           ELSE IF id \notin DOMAIN emotes
           THEN Return(p, "nsfw", <<"TypeError">>) /\ UNCHANGED emotes
           ELSE /\ emotes' = [emotes EXCEPT ![id].nsfw = new_status]
                /\ Return(p, "nsfw", <<"ok", emotes'[id].nsfw>>)
    /\ UNCHANGED <<usage, user_opt, guild_opt, backlog, discord, nextId, now, started, everUnpreserved, rest>>

(***************************************************************************)
(* log_emote_use                                                           *)
(***************************************************************************)

\* INSERT INTO emote_usage_history (id) SELECT ($1) WHERE NOT EXISTS
\* (SELECT 1 FROM emotes WHERE id = $1 AND author = $2): whether the SELECT
\* gives a row to insert.
LogsUseOfAnyone(emote_id, user_id) == TRUE
LogsUse(emote_id, user_id) ==
    ~ \E i \in DOMAIN emotes : emotes[i].id = emote_id /\ emotes[i].author = user_id

\* One statement.  The history's id references emotes: a row for an id that
\* has no emote is refused (ForeignKeyViolationError).
log_emote_use(emote_id, user_id) ==
    /\ Start
    /\ usage' =
         IF LogsUse(emote_id, user_id) /\ emote_id \in DOMAIN emotes
         THEN [usage EXCEPT ![emote_id] = Append(@, now)]
         ELSE usage
    /\ UNCHANGED <<emotes, user_opt, guild_opt, backlog, discord, nextId, task, now, everUnpreserved, rest>>

(***************************************************************************)
(* Blacklist                                                               *)
(***************************************************************************)

\* INSERT INTO user_opt (id, blacklist_reason) VALUES ($1, $2)
\* ON CONFLICT (id) DO UPDATE SET blacklist_reason = EXCLUDED.blacklist_reason
set_user_blacklist(user_id, reason) ==
    /\ user_opt' =
         IF user_id \in DOMAIN user_opt
         THEN [user_opt EXCEPT ![user_id].blacklist_reason = reason]
         ELSE With(user_opt, user_id, [state |-> NULL, blacklist_reason |-> reason])
    /\ UNCHANGED <<emotes, usage, guild_opt, backlog, discord, nextId, task, now, everUnpreserved, rest>>

(***************************************************************************)
(* User and guild options                                                  *)
(***************************************************************************)

\* SQL's NOT on a nullable boolean: NOT NULL is NULL.
NOT(v) == IF v = NULL THEN NULL ELSE Some(~ v[1])

\* SQL's COALESCE: the first value that is not NULL, NULL when there is none.
COALESCE(values) ==
    IF \A k \in DOMAIN values : values[k] = NULL THEN NULL
    ELSE values[CHOOSE k \in DOMAIN values :
                    values[k] # NULL /\ \A j \in 1 .. k - 1 : values[j] = NULL]

\* _get_state: SELECT state FROM {table_name} WHERE id = $1 (no row: None).
get_user_state(user_id) ==
    IF user_id \in DOMAIN user_opt THEN user_opt[user_id].state ELSE NULL
get_guild_state(guild_id) ==
    IF guild_id \in DOMAIN guild_opt THEN guild_opt[guild_id].state ELSE NULL

\* extensions/db.py get_state's query:
\*   SELECT COALESCE(
\*     CASE WHEN (SELECT blacklist_reason FROM user_opt WHERE id = $2) IS NULL
\*          THEN NULL ELSE FALSE END,
\*     (SELECT state FROM user_opt WHERE id = $2),
\*     (SELECT state FROM guild_opt WHERE id = $1),
\*     true)
get_state_user_last(guild_id, user_id) ==
    COALESCE(<< IF get_user_blacklist(user_id) = NULL THEN NULL ELSE Some(FALSE),
                get_guild_state(guild_id),
                get_user_state(user_id),
                Some(TRUE) >>)
get_state(guild_id, user_id) ==
    COALESCE(<< IF get_user_blacklist(user_id) = NULL THEN NULL ELSE Some(FALSE),
                get_user_state(user_id),
                get_guild_state(guild_id),
                Some(TRUE) >>)

\* A variant of _toggle_state whose conflict clause writes the default
\* (SET state = EXCLUDED.state).
toggle_state_overwrite(table, id, row) ==
    IF id \in DOMAIN table
    THEN [table EXCEPT ![id].state = row.state]
    ELSE With(table, id, row)

\* A variant of _toggle_state that leaves a row it finds as it is
\* (ON CONFLICT DO NOTHING).
toggle_state_insert_only(table, id, row) ==
    IF id \in DOMAIN table THEN table ELSE With(table, id, row)

\* _toggle_state's statement:
\*   INSERT INTO {table_name} (id, state) VALUES ($1, $2)
\*   ON CONFLICT (id) DO UPDATE SET state = NOT {table_name}.state
\* `row` is the row the INSERT makes of the default.
toggle_state(table, id, row) ==
    IF id \in DOMAIN table
    THEN [table EXCEPT ![id].state = NOT(@)]
    ELSE With(table, id, row)

\* get_state(guild_id, user_id) of extensions/db.py: one query.
call_get_state(p, guild_id, user_id) ==
    /\ task[p].pc = "idle"
    /\ Return(p, "get_state", <<get_state(guild_id, user_id)[1]>>)
    /\ UNCHANGED <<emotes, usage, user_opt, guild_opt, backlog, discord, nextId, now, started, everUnpreserved, rest>>

\* get_state(guild_id, user_id) of cogs/db.py: state = True, then
\* guild_state = await self.get_guild_state(guild_id) ...
cogs_get_state(p, guild_id, user_id) ==
    /\ task[p].pc = "idle"
    /\ task' = [task EXCEPT ![p] =
           [Idle EXCEPT !.op = "cogs_get_state", !.pc = "user", !.user_id = user_id,
                        !.guild_id = guild_id, !.state = get_guild_state(guild_id)]]
    /\ UNCHANGED <<emotes, usage, user_opt, guild_opt, backlog, discord, nextId, now, started, everUnpreserved, rest>>

\* ... then user_state = await self.get_user_state(user_id), which overrides
\* the guild's state; the blacklist is not read.
cogs_get_state_user(p) ==
    /\ At(p, "cogs_get_state", "user")
    /\ LET guild_state == task[p].state
           user_state == get_user_state(task[p].user_id)
           state == IF user_state # NULL THEN user_state[1]
                    ELSE IF guild_state # NULL THEN guild_state[1]
                    ELSE TRUE
       IN  Return(p, "cogs_get_state", <<state>>)
    /\ UNCHANGED <<emotes, usage, user_opt, guild_opt, backlog, discord, nextId, now, started, everUnpreserved, rest>>

\* toggle_user_state(user_id, guild_id): default = False, or the opposite of
\* the guild's state if it has one (guild_id may be None: no row has it).
toggle_user_state(p, user_id, guild_id) ==
    /\ task[p].pc = "idle"
    /\ LET guild_state == get_guild_state(guild_id)
           default == IF guild_state # NULL THEN ~ guild_state[1] ELSE FALSE
       IN  task' = [task EXCEPT ![p] =
               [Idle EXCEPT !.op = "toggle_user_state", !.pc = "toggle",
                            !.user_id = user_id, !.guild_id = guild_id,
                            !.state = Some(default)]]
    /\ UNCHANGED <<emotes, usage, user_opt, guild_opt, backlog, discord, nextId, now, started, everUnpreserved, rest>>

\* return await self._toggle_state('user_opt', user_id, default)
toggle_user_toggle(p) ==
    /\ At(p, "toggle_user_state", "toggle")
    /\ user_opt' = toggle_state(user_opt, task[p].user_id,
                                [state |-> task[p].state, blacklist_reason |-> NULL])
    /\ Return(p, "toggle_user_state", <<user_opt'[task[p].user_id].state>>)
    /\ UNCHANGED <<emotes, usage, guild_opt, backlog, discord, nextId, now, started, everUnpreserved, rest>>

\* toggle_guild_state(guild_id): self._toggle_state('guild_opt', guild_id, False)
toggle_guild_state(p, guild_id) ==
    /\ task[p].pc = "idle"
    /\ guild_opt' = toggle_state(guild_opt, guild_id, [state |-> Some(FALSE)])
    /\ Return(p, "toggle_guild_state", <<guild_opt'[guild_id].state>>)
    /\ UNCHANGED <<emotes, usage, user_opt, backlog, discord, nextId, now, started, everUnpreserved, rest>>

(***************************************************************************)
(* Decay                                                                   *)
(***************************************************************************)

\* bot.config.get('decay'): absent, a bool (the old schema), or a dict whose
\* keys 'enabled', cutoff 'time' and cutoff 'usage' may each be missing.
RawConfig(kind, enabled, time, threshold) ==
    [kind |-> kind, enabled |-> enabled, time |-> time, usage |-> threshold]

RawConfigs ==
    { RawConfig("absent", NULL, NULL, NULL),
      RawConfig("bool", Some(TRUE), NULL, NULL),
      RawConfig("dict", Some(TRUE), Some(1), Some(1)),
      RawConfig("dict", NULL, Some(2), NULL) }

\* _process_decay_config: a bool (or nothing: False) becomes {'enabled': it},
\* then setdefault fills what is missing.
ProcessDecayConfig(raw) ==
    LET decay_settings ==
            IF raw.kind = "dict" THEN raw
            ELSE RawConfig("dict",
                           IF raw.kind = "absent" THEN Some(FALSE) ELSE raw.enabled,
                           NULL, NULL)
    IN  [enabled |-> IF decay_settings.enabled = NULL THEN FALSE
                     ELSE decay_settings.enabled[1],
         time |-> IF decay_settings.time = NULL THEN DefaultCutoffTime
                  ELSE decay_settings.time[1],
         usage |-> IF decay_settings.usage = NULL THEN DefaultCutoffUsage
                   ELSE decay_settings.usage[1]]

\* The rows of emote_usage_history: the k-th event of emote i.
UsageRows == {<<i, k>> \in Ids \X (1 .. (MaxUses + MaxOps)) : k <= Len(usage[i])}
UsageTime(euh) == usage[euh[1]][euh[2]]

\* DatabaseEmote(row) of a row of the decay query: e.* and the usage column.
DatabaseEmote(e, count) ==
    [id |-> e.id, name |-> e.name, author |-> e.author, animated |-> e.animated,
     guild |-> e.guild, description |-> e.description, preserve |-> e.preserve,
     created |-> e.created, nsfw |-> e.nsfw, usage |-> count]

\* decayable_emotes' query:
\*   SELECT e.*, COUNT(euh.id) AS usage FROM emotes AS e
\*   LEFT JOIN emote_usage_history AS euh ON euh.id = e.id AND time > $1
\*   WHERE created < $1 AND NOT preserve
\*   GROUP BY e.id HAVING COUNT(euh.id) < $2
\* An emote no event joins to keeps one row with a NULL euh.id, which COUNT
\* does not count.
DecayableEmotesPreservedToo(cutoff_time, usage_threshold) ==
    LET Joined(e) == {euh \in UsageRows : euh[1] = e.id /\ UsageTime(euh) > cutoff_time}
    IN  { DatabaseEmote(emotes[i], Cardinality(Joined(emotes[i]))) :
            i \in { j \in DOMAIN emotes :
                      /\ emotes[j].created < cutoff_time
                      /\ Cardinality(Joined(emotes[j])) < usage_threshold } }
DecayableEmotesUpToThreshold(cutoff_time, usage_threshold) ==
    LET Joined(e) == {euh \in UsageRows : euh[1] = e.id /\ UsageTime(euh) > cutoff_time}
    IN  { DatabaseEmote(emotes[i], Cardinality(Joined(emotes[i]))) :
            i \in { j \in DOMAIN emotes :
                      /\ emotes[j].created < cutoff_time
                      /\ ~ emotes[j].preserve
                      /\ Cardinality(Joined(emotes[j])) <= usage_threshold } }
DecayableEmotes(cutoff_time, usage_threshold) ==
    LET Joined(e) == {euh \in UsageRows : euh[1] = e.id /\ UsageTime(euh) > cutoff_time}
    IN  { DatabaseEmote(emotes[i], Cardinality(Joined(emotes[i]))) :
            i \in { j \in DOMAIN emotes :
                      /\ emotes[j].created < cutoff_time
                      /\ ~ emotes[j].preserve
                      /\ Cardinality(Joined(emotes[j])) < usage_threshold } }

\* decay_loop asleep (asyncio.sleep(poll_interval)), no cursor open.
Sleeping == [pc |-> "sleep", candidates |-> {}, emote |-> NULL, posted |-> {}]

\* A variant in which the poll does not wait for the pass in progress.
decay_wake_while_scanning ==
    /\ decay.pc \in {"sleep", "iterate", "http", "delete"}
    /\ decay' = IF config.enabled THEN [decay EXCEPT !.pc = "ready"] ELSE decay
    /\ UNCHANGED <<emotes, usage, user_opt, guild_opt, backlog, discord, nextId, task, now, started, everUnpreserved, config, aside>>

\* decay_loop wakes: with decay disabled it sleeps again, else it waits for
\* the bot and the database to be ready.
decay_wake ==
    /\ decay.pc = "sleep"
    /\ decay' = IF config.enabled THEN [decay EXCEPT !.pc = "ready"] ELSE decay
    /\ UNCHANGED <<emotes, usage, user_opt, guild_opt, backlog, discord, nextId, task, now, started, everUnpreserved, config, aside>>

\* decay() starts: decayable_emotes() takes the cutoff from the clock and the
\* configuration, and the cursor's query is run; its rows are those of the
\* store at this moment.
decay_scan ==
    /\ decay.pc = "ready"
    /\ LET cutoff_time == now - config.time
           usage_threshold == config.usage
       IN  decay' = [decay EXCEPT !.pc = "iterate",
                         !.candidates = DecayableEmotes(cutoff_time, usage_threshold)]
    /\ UNCHANGED <<emotes, usage, user_opt, guild_opt, backlog, discord, nextId, task, now, started, everUnpreserved, config, aside>>

\* The cursor gives its next row (in no stated order) and
\* removal_message = await self.logger.on_emote_decay(emote) posts the notice.
decay_notify ==
    /\ decay.pc = "iterate"
    /\ \E emote \in decay.candidates :
           decay' = [decay EXCEPT !.pc = "http", !.emote = Some(emote),
                         !.candidates = @ \ {emote}, !.posted = @ \cup {emote.id}]
    /\ UNCHANGED <<emotes, usage, user_opt, guild_opt, backlog, discord, nextId, task, now, started, everUnpreserved, config, aside>>

\* remove_emote(emote, user_id=None): no lookup, the ownership check passes;
\* delete_custom_emoji deletes the emote, or it is not there (discord.NotFound,
\* passed over), or Discord refuses with another discord.HTTPException, which
\* is none of the exceptions decay() catches and ends decay_loop.
decay_remove_http ==
    /\ decay.pc = "http"
    /\ LET id == decay.emote[1].id IN
       \/ /\ id \in DOMAIN discord
          /\ discord' = Without(discord, id)
          /\ decay' = [decay EXCEPT !.pc = "delete"]
       \/ /\ id \notin DOMAIN discord
          /\ discord' = discord
          /\ decay' = [decay EXCEPT !.pc = "delete"]
       \/ /\ discord' = discord
          /\ decay' = [decay EXCEPT !.pc = "crashed", !.candidates = {}]
    /\ UNCHANGED <<emotes, usage, user_opt, guild_opt, backlog, nextId, task, now, started, everUnpreserved, config, aside>>

\* remove_emote's DELETE FROM emotes WHERE id = $1, then back to the cursor.
decay_remove_delete ==
    /\ decay.pc = "delete"
    /\ emotes' = EmotesAfterDelete(decay.emote[1].id)
    /\ usage' = UsageAfterDelete(decay.emote[1].id)
    /\ decay' = [decay EXCEPT !.pc = "iterate", !.emote = NULL]
    /\ UNCHANGED <<user_opt, guild_opt, backlog, discord, nextId, task, now, started, everUnpreserved, config, aside>>

\* The cursor is exhausted: decay() returns and decay_loop sleeps.
decay_done ==
    /\ decay.pc = "iterate"
    /\ decay.candidates = {}
    /\ decay' = [decay EXCEPT !.pc = "sleep"]
    /\ UNCHANGED <<emotes, usage, user_opt, guild_opt, backlog, discord, nextId, task, now, started, everUnpreserved, config, aside>>

\* __unload: task.cancel() on decay_loop, which raises CancelledError at
\* the await the loop is suspended in; no handler of decay_loop, decay or
\* remove_emote catches it.  A call to Discord or a statement that was
\* under way has taken effect or has not.
decay_cancel ==
    /\ decay.pc \in {"sleep", "ready", "iterate", "http", "delete"}
    /\ decay' = [decay EXCEPT !.pc = "cancelled", !.candidates = {}]
    /\ \/ UNCHANGED <<emotes, usage, discord>>
       \/ /\ decay.pc = "http"
          /\ decay.emote[1].id \in DOMAIN discord
          /\ discord' = Without(discord, decay.emote[1].id)
          /\ UNCHANGED <<emotes, usage>>
       \/ /\ decay.pc = "delete"
          /\ decay.emote[1].id \in DOMAIN emotes
          /\ emotes' = EmotesAfterDelete(decay.emote[1].id)
          /\ usage' = UsageAfterDelete(decay.emote[1].id)
          /\ UNCHANGED discord
    /\ UNCHANGED <<user_opt, guild_opt, backlog, nextId, task, now, started, everUnpreserved, config, aside>>

\* The owner switches decay on or off in bot.config between two polls.
set_decay_enabled(enabled) ==
    /\ Start
    /\ config' = [config EXCEPT !.enabled = enabled]
    /\ UNCHANGED <<emotes, usage, user_opt, guild_opt, backlog, discord, nextId, task, now, everUnpreserved, decay, aside>>

\* A variant whose UPDATE has no WHERE clause.
set_emote_preservation_of_all(name, should_preserve) ==
    /\ Start
    /\ emotes' = [i \in DOMAIN emotes |-> [emotes[i] EXCEPT !.preserve = should_preserve]]
    /\ everUnpreserved' =
         IF should_preserve THEN everUnpreserved
         ELSE everUnpreserved \cup DOMAIN emotes
    /\ UNCHANGED <<usage, user_opt, guild_opt, backlog, discord, nextId, task, now, rest>>

\* UPDATE emotes SET preserve = $1 WHERE LOWER(name) = LOWER($2) RETURNING *
\* (no row: EmoteNotFoundError, and nothing changed).
set_emote_preservation(name, should_preserve) ==
    /\ Start
    /\ emotes' = [i \in DOMAIN emotes |->
                    IF i \in EmotesNamed(name)
                    THEN [emotes[i] EXCEPT !.preserve = should_preserve]
                    ELSE emotes[i]]
    /\ everUnpreserved' =
         IF should_preserve THEN everUnpreserved
         ELSE everUnpreserved \cup EmotesNamed(name)
    /\ UNCHANGED <<usage, user_opt, guild_opt, backlog, discord, nextId, task, now, rest>>

\* A week passes.
Tick ==
    /\ now < MaxTime
    /\ now' = now + 1
    /\ UNCHANGED <<emotes, usage, user_opt, guild_opt, backlog, discord, nextId, task, started, everUnpreserved, rest>>

(***************************************************************************)
(* find_backend_guilds                                                     *)
(***************************************************************************)

\* A call of find_backend_guilds not made yet.
NotCalled == [pc |-> "idle", found |-> {}]

\* guild.name.startswith(('EmojiBackend', 'EmoteBackend'))
StartsWithBackend(name) == name[1] \in {"EmojiBackend", "EmoteBackend"}

\* The set comprehension over self.bot.guilds, as ids.
BackendGuildsOf(bot_guilds) ==
    {guild.id : guild \in {g \in bot_guilds :
                               StartsWithBackend(g.name) /\ g.owner \in BotOwners}}

\* getattr(self, 'guilds', None), as a condition: an attribute that is not
\* set and an empty frozenset are both false.
GuildsFound == guilds # NULL /\ guilds[1] # {}

\* find_backend_guilds is called: it returns at once if self.guilds is
\* there and not empty, else it awaits bot.wait_until_ready().
find_backend_guilds(f) ==
    /\ finder[f].pc = "idle"
    /\ finder' = [finder EXCEPT ![f].pc = IF GuildsFound THEN "returned" ELSE "wait"]
    /\ UNCHANGED <<guilds, dispatched, backend>>
    /\ UNCHANGED <<emotes, usage, user_opt, guild_opt, backlog, discord, nextId, task, now, started, everUnpreserved, config, decay, pool, cursor, overlap>>

\* The bot is ready: the comprehension runs over the guilds the bot is in
\* at this time (it awaits bot.is_owner for the guilds of a fitting name).
find_enumerate(f) ==
    /\ finder[f].pc = "wait"
    /\ \E bot_guilds \in SUBSET BotGuilds :
           finder' = [finder EXCEPT ![f] = [pc |-> "insert", found |-> BackendGuildsOf(bot_guilds)]]
    /\ UNCHANGED <<guilds, dispatched, backend>>
    /\ UNCHANGED <<emotes, usage, user_opt, guild_opt, backlog, discord, nextId, task, now, started, everUnpreserved, config, decay, pool, cursor, overlap>>

\* INSERT INTO _guilds VALUES ($1) ON CONFLICT (id) DO NOTHING, for each.
find_insert(f) ==
    /\ finder[f].pc = "insert"
    /\ backend' = backend \cup finder[f].found
    /\ finder' = [finder EXCEPT ![f].pc = "publish"]
    /\ UNCHANGED <<guilds, dispatched>>
    /\ UNCHANGED <<emotes, usage, user_opt, guild_opt, backlog, discord, nextId, task, now, started, everUnpreserved, config, decay, pool, cursor, overlap>>

\* self.guilds = frozenset(guilds);
\* self.bot.dispatch('backend_guild_enumeration', self.guilds)
find_publish(f) ==
    /\ finder[f].pc = "publish"
    /\ guilds' = Some(finder[f].found)
    /\ dispatched' = Append(dispatched, finder[f].found)
    /\ finder' = [finder EXCEPT ![f].pc = "published"]
    /\ UNCHANGED backend
    /\ UNCHANGED <<emotes, usage, user_opt, guild_opt, backlog, discord, nextId, task, now, started, everUnpreserved, config, decay, pool, cursor, overlap>>

(***************************************************************************)
(* Cursors: _database_emote_cursor over _cursor                            *)
(***************************************************************************)

\* No traversal yet: the consumer has no iterator.
Unused ==
    [pc |-> "unused", rows |-> 0, taken |-> 0, conn |-> FALSE, tx |-> FALSE,
     exit |-> "none"]

\* A step of consumer c's traversal; nothing else moves.
Traverse(c, next) ==
    /\ cursor' = [cursor EXCEPT ![c] = next]
    /\ UNCHANGED beside

\* The consumer calls all_emotes() (or another iterator built on
\* _database_emote_cursor) on a query of `rows` rows and asks for the first
\* item: both generators start, and _cursor waits in pool.acquire().
cursor_open(c, rows) ==
    /\ cursor[c].pc \in {"unused", "ended"}
    /\ Traverse(c, [Unused EXCEPT !.pc = "acquire", !.rows = rows])
    /\ UNCHANGED pool

\* async with self.bot.pool.acquire() as connection: a free connection is
\* taken (the coroutine waits while there is none); then BEGIN is sent.
cursor_acquire(c) ==
    /\ cursor[c].pc = "acquire"
    /\ pool > 0
    /\ pool' = pool - 1
    /\ Traverse(c, [cursor[c] EXCEPT !.pc = "begin", !.conn = TRUE])

\* async with connection.transaction(): the transaction starts, or the
\* database refuses and the exception leaves through acquire()'s __aexit__.
cursor_begin(c) ==
    /\ cursor[c].pc = "begin"
    /\ \/ Traverse(c, [cursor[c] EXCEPT !.pc = "fetch", !.tx = TRUE])
       \/ Traverse(c, [cursor[c] EXCEPT !.pc = "release", !.exit = "error"])
    /\ UNCHANGED pool

\* async for row in connection.cursor(query, *args): the next row comes and
\* is yielded up to the consumer, or is filtered out by
\* _database_emote_cursor (an NSFW emote in a channel that is not) and the
\* loop goes on; or there is no row left and the transaction block is left;
\* or the query fails and the block is left with the exception.
cursor_fetch(c) ==
    /\ cursor[c].pc = "fetch"
    /\ \/ /\ cursor[c].rows > 0
          /\ \/ Traverse(c, [cursor[c] EXCEPT !.pc = "body", !.rows = @ - 1,
                                              !.taken = @ + 1])
             \/ Traverse(c, [cursor[c] EXCEPT !.rows = @ - 1])
       \/ /\ cursor[c].rows = 0
          /\ Traverse(c, [cursor[c] EXCEPT !.pc = "commit", !.exit = "exhausted"])
       \/ Traverse(c, [cursor[c] EXCEPT !.pc = "rollback", !.exit = "error"])
    /\ UNCHANGED pool

\* The consumer's loop body is done with the item and asks for the next.
consumer_next(c) ==
    /\ cursor[c].pc = "body"
    /\ Traverse(c, [cursor[c] EXCEPT !.pc = "fetch"])
    /\ UNCHANGED pool

\* The consumer leaves its loop with the generators suspended at their yield:
\* by break or return ("stopped") or by an exception of the loop body
\* ("raised").  Nothing refers to the outer generator any more, and the event
\* loop's finalizer hook schedules its aclose().
consumer_stop(c, exit) ==
    /\ cursor[c].pc = "body"
    /\ Traverse(c, [cursor[c] EXCEPT !.pc = "aclose_outer", !.exit = exit])
    /\ UNCHANGED pool

\* aclose() of _database_emote_cursor runs: GeneratorExit at its yield ends it
\* inside its async for, which closes nothing; _cursor's generator is let go
\* of in turn and the hook schedules its aclose().
finalize_outer(c) ==
    /\ cursor[c].pc = "aclose_outer"
    /\ Traverse(c, [cursor[c] EXCEPT !.pc = "aclose_inner"])
    /\ UNCHANGED pool

\* aclose() of _cursor runs: GeneratorExit at `yield row` leaves the
\* transaction block, whose __aexit__ sends ROLLBACK.
finalize_inner_dropped(c) ==
    /\ cursor[c].pc = "aclose_inner"
    /\ Traverse(c, [cursor[c] EXCEPT !.pc = "ended"])
    /\ UNCHANGED pool
finalize_inner(c) ==
    /\ cursor[c].pc = "aclose_inner"
    /\ Traverse(c, [cursor[c] EXCEPT !.pc = "rollback"])
    /\ UNCHANGED pool

\* transaction().__aexit__ without an exception: COMMIT.
cursor_commit(c) ==
    /\ cursor[c].pc = "commit"
    /\ Traverse(c, [cursor[c] EXCEPT !.pc = "release", !.tx = FALSE])
    /\ UNCHANGED pool

\* transaction().__aexit__ with an exception (GeneratorExit too): ROLLBACK.
cursor_rollback(c) ==
    /\ cursor[c].pc = "rollback"
    /\ Traverse(c, [cursor[c] EXCEPT !.pc = "release", !.tx = FALSE])
    /\ UNCHANGED pool

\* acquire().__aexit__: the connection goes back to the pool, and _cursor
\* ends: the consumer's loop ends (exhaustion), the exception reaches the
\* consumer (error), or aclose() returns (stopped, raised).
cursor_release(c) ==
    /\ cursor[c].pc = "release"
    /\ pool' = pool + 1
    /\ Traverse(c, [cursor[c] EXCEPT !.pc = "ended", !.conn = FALSE])

(***************************************************************************)
(* The requests on the emotes: create, remove, rename, describe, with the  *)
(* blacklist changing under them.                                          *)
(***************************************************************************)

EmptyFunction == [i \in {} |-> 0]

\* self.guilds is not set, nothing was dispatched, find_backend_guilds has
\* not been called, and _guilds has no row.
NoGuilds ==
    /\ guilds = NULL
    /\ dispatched = <<>>
    /\ finder = [f \in Finders |-> NotCalled]
    /\ backend = {}

\* The pool is whole and nothing is being traversed.
NoCursors ==
    /\ pool = PoolSize
    /\ cursor = [c \in Consumers |-> Unused]

\* The stores a behaviour starts from: no emote; emote 1, a static "Foo" of
\* user 2 in guild 1, used once; and with it emote 2, an animated "bar" of
\* user 1 in guild 2.
StoredRow(id) ==
    IF id = 1
    THEN [id |-> 1, name |-> "Foo", author |-> 2, animated |-> FALSE,
          guild |-> 1, description |-> NULL, preserve |-> FALSE,
          created |-> 0, nsfw |-> "SFW"]
    ELSE [id |-> 2, name |-> "bar", author |-> 1, animated |-> TRUE,
          guild |-> 2, description |-> NULL, preserve |-> FALSE,
          created |-> 0, nsfw |-> "SFW"]

StoredRows(ids) == [id \in ids |-> StoredRow(id)]

\* With the stored emotes counted, guild 1 holds one static emote less than
\* free_guild's limit, guild 2 as many as the limit, and both hold one
\* animated emote less than the limit.
StoredBacklog(ids) ==
    [g \in Guilds |->
        [animated \in BOOLEAN |->
            (IF animated \/ g = 1 THEN Capacity - 1 ELSE Capacity)
            - Cardinality({id \in ids : StoredRow(id).guild = g
                                          /\ StoredRow(id).animated = animated})]]

InitStore(ids) ==
    /\ emotes = StoredRows(ids)
    /\ discord = [id \in ids |->
                    [guild |-> StoredRow(id).guild, name |-> StoredRow(id).name,
                     animated |-> StoredRow(id).animated]]
    /\ usage = [i \in Ids |-> IF i = 1 /\ i \in ids THEN <<0>> ELSE <<>>]
    /\ backlog = StoredBacklog(ids)
    /\ nextId = Cardinality(ids) + 1
    /\ everUnpreserved = ids

Init ==
    /\ \E ids \in {{}, {1}, {1, 2}} : InitStore(ids)
    /\ user_opt = EmptyFunction
    /\ guild_opt = EmptyFunction
    /\ task = [p \in Procs |-> Idle]
    /\ now = 0
    /\ started = 0
    /\ config = ProcessDecayConfig(RawConfig("absent", NULL, NULL, NULL))
    /\ decay = Sleeping
    /\ NoCursors
    /\ overlap = 0
    /\ NoGuilds

Next ==
    \/ \E p \in Procs, name \in Names, author_id \in Users, animated \in BOOLEAN :
           create_emote(p, name, author_id, animated)
    \/ \E p \in Procs : create_ensure(p)
    \/ \E p \in Procs : create_free_guild(p)
    \/ \E p \in Procs : create_http(p)
    \/ \E p \in Procs : create_insert(p)
    \/ \E p \in Procs, name \in Names, user_id \in Users \cup {None} :
           remove_emote(p, name, user_id)
    \/ \E p \in Procs : remove_http(p)
    \/ \E p \in Procs : remove_delete(p)
    \/ \E p \in Procs, old_name \in Names, new_name \in Names, user_id \in Users \cup {None} :
           rename_emote(p, old_name, new_name, user_id)
    \/ \E p \in Procs : rename_get(p)
    \/ \E p \in Procs : rename_http(p)
    \/ \E p \in Procs : rename_update(p)
    \/ \E p \in Procs, name \in Names, user_id \in Users \cup {None}, description \in Descriptions :
           set_emote_description(p, name, user_id, description)
    \/ \E p \in Procs : describe_update(p)
    \/ \E emote_id \in Ids, user_id \in Users : log_emote_use(emote_id, user_id)
    \/ \E user_id \in Users, reason \in Reasons :
           Start /\ set_user_blacklist(user_id, reason)

Spec == Init /\ [][Next]_vars

(***************************************************************************)
(* Properties of the requests on the emotes (Spec)                         *)
(***************************************************************************)

C2_FreeGuild ==
    [][\A p \in Procs :
          create_free_guild(p) =>
              IF \A g \in Guilds : GuildUsage(g, task[p].animated) >= Capacity
              THEN task'[p].res = <<"NoMoreSlotsError">>
              ELSE /\ task'[p].pc = "http"
                   /\ task'[p].guild_id \in Guilds
                   /\ GuildUsage(task'[p].guild_id, task[p].animated) < Capacity]_vars

\* A create was given a guild by free_guild and stored its emote, which
\* filled the last guild with room for a static emote; the next create was
\* refused with NoMoreSlotsError.
C2_Witness ==
    /\ \A g \in Guilds : GuildUsage(g, FALSE) >= Capacity
    /\ \E p \in Procs : task[p].op = "create" /\ task[p].res = <<"NoMoreSlotsError">>
    /\ \E q \in Procs : task[q].op = "create" /\ task[q].res = <<"ok">>

\* The authorization the claim C6 states: the requester is None, a bot owner,
\* or the emote's author.
Authorized(author, user_id) ==
    user_id = None \/ user_id \in BotOwners \/ user_id = author

\* What a step that refuses p's request for lack of authorization looks like:
\* p ends with PermissionDeniedError naming the emote, and the emotes, their
\* usage history and Discord's emotes are as before.
Denied(p, emote) ==
    /\ task'[p].pc = "idle"
    /\ task'[p].res = <<"PermissionDeniedError", emote.name>>
    /\ UNCHANGED <<emotes, usage, discord>>

\* What a step that lets p's request through looks like: p holds the row it
\* read and goes on to the Discord call (rename, remove) or the UPDATE.
Admitted(p, emote, pc) ==
    /\ task'[p].pc = pc
    /\ task'[p].emote = Some(emote)
    /\ UNCHANGED <<emotes, usage, discord>>

\* C6 as claimed: whenever remove, rename or set_emote_description is called
\* on an existing emote by a requester who is not authorized, the request
\* fails with PermissionDeniedError (here: the step that ends the call of an
\* unauthorized requester ends it with PermissionDeniedError).
C6_Original ==
    [][\A p \in Procs, name \in Names, new_name \in Names, user_id \in Users \cup {None} :
          LET emote == get_emote(name) IN
          /\ emote # NULL
          /\ ~ Authorized(emote[1].author, user_id)
          /\ \/ remove_emote(p, name, user_id)
             \/ rename_emote(p, name, new_name, user_id)
             \/ \E d \in Descriptions : set_emote_description(p, name, user_id, d)
          /\ task'[p].pc = "idle"
          => task'[p].res = <<"PermissionDeniedError", emote[1].name>>]_vars

\* C6, amended: the ownership check of remove, rename and
\* set_emote_description lets the request through if and only if the
\* requester is None, a bot owner or the author of the row read; a request it
\* refuses ends with PermissionDeniedError and leaves emotes, usage history
\* and Discord's emotes unchanged.  rename makes the check only after
\* ensure_emote_does_not_exist(new_name): a rename to a name in use (other
\* than a capitalization of the old name) ends with EmoteExistsError,
\* authorized or not, and changes nothing either.
C6_Authorization ==
    [][\A p \in Procs, name \in Names, user_id \in Users \cup {None} :
          LET emote == get_emote(name) IN
          ( /\ started' # started \/ task'[p] # task[p]
            /\ task[p].pc \in {"idle", "get"}
            /\ emote # NULL ) =>
            /\ ( task'[p].op = "remove" /\ remove_emote(p, name, user_id) ) =>
                 IF Authorized(emote[1].author, user_id)
                 THEN Admitted(p, emote[1], "http")
                 ELSE Denied(p, emote[1])
            /\ \A d \in Descriptions :
                 ( task'[p].op = "describe"
                   /\ set_emote_description(p, name, user_id, d) ) =>
                   IF Authorized(emote[1].author, user_id)
                   THEN Admitted(p, emote[1], "update")
                   ELSE Denied(p, emote[1])
            /\ \A new_name \in Names :
                 /\ ( task'[p].op = "rename" /\ task[p].pc = "idle"
                      /\ rename_emote(p, name, new_name, user_id) ) =>
                      IF LOWER(name) # LOWER(new_name)
                      THEN /\ UNCHANGED <<emotes, usage, discord>>
                           /\ IF get_emote(new_name) # NULL
                              THEN /\ task'[p].pc = "idle"
                                   /\ task'[p].res = <<"EmoteExistsError">>
                              ELSE task'[p].pc = "get"
                      ELSE IF Authorized(emote[1].author, user_id)
                      THEN Admitted(p, emote[1], "http")
                      ELSE Denied(p, emote[1])
                 /\ ( /\ task[p].pc = "get"
                      /\ task[p].name = name
                      /\ task[p].user_id = user_id
                      /\ rename_get(p) ) =>
                      IF Authorized(emote[1].author, user_id)
                      THEN Admitted(p, emote[1], "http")
                      ELSE Denied(p, emote[1])]_vars

\* User 1, who is no bot owner, was refused on an emote of user 2, which is
\* still there.
C6_Witness ==
    \E p \in Procs :
        /\ task[p].res = <<"PermissionDeniedError", "Foo">>
        /\ 1 \in DOMAIN emotes /\ emotes[1].author = 2
        /\ 1 \in DOMAIN discord

C9_SelfUseNotLogged ==
    [][\A emote_id \in DOMAIN emotes, user_id \in Users :
          log_emote_use(emote_id, user_id) =>
              /\ \A i \in Ids \ {emote_id} : usage'[i] = usage[i]
              /\ IF emotes[emote_id].author = user_id
                 THEN usage'[emote_id] = usage[emote_id]
                 ELSE /\ Len(usage'[emote_id]) = Len(usage[emote_id]) + 1
                      /\ SubSeq(usage'[emote_id], 1, Len(usage[emote_id])) = usage[emote_id]]_vars

\* Emote 1 (of user 2) had been used once before the first request; a use of
\* it by another user was logged since.
C9_Witness ==
    /\ 1 \in DOMAIN emotes
    /\ Len(usage[1]) = 2
    /\ started >= 1

\* C11: a rename to another capitalization of the emote's own name never
\* ends in EmoteExistsError: the call goes straight to the lookup and the
\* ownership check, and when its UPDATE runs on the row still bearing that
\* name the rename ends ok with the row under the new capitalization.
C11_RenameCapitalization ==
    [][\A p \in Procs :
          /\ (/\ task[p].pc = "idle"
              /\ task'[p].op = "rename"
              /\ started' # started)
             => \A old_name, new_name \in Names, user_id \in Users :
                   (/\ LOWER(old_name) = LOWER(new_name)
                    /\ rename_emote(p, old_name, new_name, user_id))
                   => /\ task'[p].res # <<"EmoteExistsError">>
                      /\ (get_emote(old_name) # NULL /\ is_owner(get_emote(old_name)[1], user_id))
                         => /\ task'[p].pc = "http"
                            /\ task'[p].new_name = new_name
          /\ (/\ At(p, "rename", "update")
              /\ task'[p] # task[p]
              /\ LOWER(task[p].emote[1].name) = LOWER(task[p].new_name)
              /\ task[p].emote[1].id \in DOMAIN emotes
              /\ LOWER(emotes[task[p].emote[1].id].name) = LOWER(task[p].new_name))
             => /\ task'[p].res = <<"ok">>
                /\ emotes'[task[p].emote[1].id].name = task[p].new_name]_vars

\* Emote 1, stored as "Foo", is "foo" in the table and at Discord after the
\* only request made, a rename that has ended ok.
C11_Witness ==
    /\ started = 1
    /\ 1 \in DOMAIN emotes
    /\ emotes[1].name = "foo"
    /\ 1 \in DOMAIN discord
    /\ discord[1].name = "foo"
    /\ \E p \in Procs : task[p].op = "rename" /\ task[p].res = <<"ok">>

\* C12: a rename whose new name, at the call, is the name (in any
\* capitalization) of another emote ends in EmoteExistsError at once, and no
\* row's name and no name at Discord is changed.
C12_RenameToUsedName ==
    [][\A p \in Procs :
          (/\ task[p].pc = "idle"
           /\ task'[p].op = "rename"
           /\ started' # started)
          => \A old_name, new_name \in Names, user_id \in Users :
                (/\ rename_emote(p, old_name, new_name, user_id)
                 /\ get_emote(new_name) # NULL
                 /\ get_emote(old_name) # get_emote(new_name))
                => /\ task'[p].res = <<"EmoteExistsError">>
                   /\ task'[p].pc = "idle"
                   /\ emotes' = emotes
                   /\ discord' = discord]_vars

\* A rename has ended in EmoteExistsError while both emotes are there under
\* the names they were created with.
C12_Witness ==
    /\ \E p \in Procs : task[p].op = "rename" /\ task[p].res = <<"EmoteExistsError">>
    /\ {1, 2} \subseteq DOMAIN emotes
    /\ emotes[1].name = "Foo" /\ discord[1].name = "Foo"
    /\ emotes[2].name = "bar" /\ discord[2].name = "bar"

\* C22: with at most K calls of create_emote in progress at once so far, no
\* backend guild holds more than 50 + (K - 1) rows of a kind, and no more
\* than 50 as long as no two calls have been in progress together.
C22_BoundedOvershoot ==
    \A g \in Guilds, animated \in BOOLEAN :
        GuildUsage(g, animated) <=
            IF overlap <= 1 THEN Capacity ELSE Capacity + (overlap - 1)

\* Two calls of create_emote in progress together were both given guild 1,
\* which had room for one more static emote, and both stored theirs: the
\* guild holds 51.
C22_Witness ==
    /\ overlap = 2
    /\ GuildUsage(1, FALSE) = Capacity + 1
    /\ \A p \in Procs : task[p].op = "create" /\ task[p].res = <<"ok">>

\* C21: when remove_emote's Discord call finds the emote gone while its row
\* is there, the answer (discord.NotFound) is not raised: unless Discord
\* fails otherwise the request goes on to its DELETE, which removes the row
\* and ends ok, so that no row bears the name any more; no remove ever ends
\* in NotFound.
C21_RemoveToleratesNotFound ==
    /\ [](\A p \in Procs : task[p].op = "remove" => task[p].res # <<"NotFound">>)
    /\ [][\A p \in Procs :
             /\ (/\ At(p, "remove", "http")
                 /\ task'[p] # task[p]
                 /\ task[p].emote[1].id \notin DOMAIN discord
                 /\ task'[p].res # <<"HTTPException">>)
                => /\ task'[p] = [task[p] EXCEPT !.pc = "delete"]
                   /\ emotes' = emotes
                   /\ discord' = discord
             /\ (/\ At(p, "remove", "delete")
                 /\ task'[p] # task[p])
                => LET id == task[p].emote[1].id IN
                   /\ id \notin DOMAIN emotes'
                   /\ task'[p].res = <<"ok">>
                   /\ id \in DOMAIN emotes
                      => \A i \in DOMAIN emotes' :
                             LOWER(emotes'[i].name) # LOWER(emotes[id].name)]_vars

\* The one stored emote was removed by two requests at once: both ended ok,
\* so one of them found the emote gone at Discord while its row was there.
C21_Witness ==
    /\ nextId = 2
    /\ emotes = EmptyFunction
    /\ discord = EmptyFunction
    /\ \A p \in Procs : task[p].op = "remove" /\ task[p].res = <<"ok">>

\* C28: an emote that create_emote made at Discord has a row with its id as
\* soon as the call that made it is over, however the call ended; so no
\* guild holds more emotes of a kind at Discord than the view guilds counts,
\* the calls that have yet to insert their row aside.
C28_NoOrphan ==
    LET Inserting(id) ==
            \E p \in Procs : At(p, "create", "insert") /\ task[p].emote_id = id
        AtDiscord(g, animated) ==
            {id \in DOMAIN discord :
                discord[id].guild = g /\ discord[id].animated = animated}
    IN  /\ \A id \in DOMAIN discord : id \in DOMAIN emotes \/ Inserting(id)
        /\ \A g \in Guilds, animated \in BOOLEAN :
              backlog[g][animated]
              + Cardinality({id \in AtDiscord(g, animated) : ~ Inserting(id)})
              <= GuildUsage(g, animated)

\* Two calls of create_emote for one name ran together: both made their
\* emote at Discord, one inserted its row, the other's INSERT was refused.
C28_Witness ==
    /\ Cardinality(DOMAIN discord) = 2
    /\ Cardinality(DOMAIN emotes) = 1
    /\ \E p, q \in Procs :
          /\ task[p].op = "create" /\ task[p].res = <<"ok">>
          /\ task[q].op = "create" /\ task[q].res = <<"UniqueViolationError">>

\* C20: set_emote_description with a text longer than the column's limit
\* ends in EmoteDescriptionTooLongError carrying the emote's name, the
\* text's length and the limit, with the description stored before still
\* there; with a text within the limit, or none, the call stores it in place
\* of the one stored before and ends ok. No other row is changed.
C20_DescriptionLimit ==
    [][\A p \in Procs :
          (/\ At(p, "describe", "update")
           /\ task'[p] # task[p]
           /\ task[p].emote[1].id \in DOMAIN emotes)
          => LET id == task[p].emote[1].id
                 description == task[p].description
             IN  /\ \A i \in DOMAIN emotes \ {id} : emotes'[i] = emotes[i]
                 /\ DOMAIN emotes' = DOMAIN emotes
                 /\ IF description # NULL /\ Len(description[1]) > DescriptionLimit
                    THEN /\ task'[p].res = <<"EmoteDescriptionTooLongError",
                                             task[p].emote[1].name,
                                             Len(description[1]), DescriptionLimit>>
                         /\ emotes'[id] = emotes[id]
                    ELSE /\ task'[p].res = <<"ok">>
                         /\ emotes'[id] = [emotes[id] EXCEPT !.description = description]]_vars

\* Emote 1 was given the description "text", of exactly the limit's length,
\* and a later call with a longer text has ended in
\* EmoteDescriptionTooLongError with the limit, "text" still stored.
C20_Witness ==
    /\ 1 \in DOMAIN emotes
    /\ emotes[1].description = Some("text")
    /\ \E p \in Procs :
          /\ task[p].op = "describe"
          /\ task[p].res = <<"EmoteDescriptionTooLongError", emotes[1].name, 5, DescriptionLimit>>

\* Whether get_emote finds every row under each capitalization of its name.
C13_Lookup ==
    \A i \in DOMAIN emotes, n \in Names :
        LOWER(n) = LOWER(emotes[i].name) => get_emote(n) = Some(emotes[i])

\* C13: once a row is there (create_emote has inserted it), get_emote gives
\* that row for every capitalization of its name, and a create_emote that
\* finds the name taken, in any capitalization, ends in EmoteExistsError
\* with no guild chosen, no emote made at Discord and no table changed.
C13_CreateThenLookup ==
    /\ []C13_Lookup
    /\ [][\A p \in Procs :
             (/\ At(p, "create", "ensure")
              /\ task'[p] # task[p]
              /\ get_emote(task[p].name) # NULL)
             => /\ task'[p] = [Idle EXCEPT !.op = "create", !.res = <<"EmoteExistsError">>]
                /\ emotes' = emotes
                /\ discord' = discord
                /\ nextId' = nextId
                /\ usage' = usage
                /\ backlog' = backlog]_vars

\* Starting from an empty table, one create_emote has inserted emote 1 and
\* the next one, under a name equal up to case, has ended in
\* EmoteExistsError with that single emote in the table and at Discord.
C13_Witness ==
    /\ DOMAIN emotes = {1}
    /\ DOMAIN discord = {1}
    /\ nextId = 2
    /\ \E p, q \in Procs :
          /\ task[p].op = "create" /\ task[p].res = <<"ok">>
          /\ task[q].op = "create" /\ task[q].res = <<"EmoteExistsError">>

(***************************************************************************)
(* The decay query on the stores it may find (SpecSel)                     *)
(***************************************************************************)

\* The usage histories of an emote created at `created`, by `now`: at most
\* MaxUses events, in the order they were logged.
Histories(created, upto) ==
    { h \in UNION { [1 .. n -> created .. upto] : n \in 0 .. MaxUses } :
        \A k \in 1 .. Len(h) - 1 : h[k] <= h[k + 1] }

\* decay() is about to run its query on a store of two emotes: emote 1 of any
\* age, preserved or not, with any history; emote 2, as old as can be, unused
\* or used this week.
InitSel ==
    /\ now \in Time
    /\ \E raw \in RawConfigs : config = ProcessDecayConfig(raw)
    /\ \E created \in 0 .. now, preserve \in BOOLEAN :
           emotes = [id \in StoredIds |->
                       IF id = 1
                       THEN [StoredRow(1) EXCEPT !.created = created, !.preserve = preserve]
                       ELSE StoredRow(2)]
    /\ \E h1 \in Histories(emotes[1].created, now), h2 \in {<<>>, <<now>>} :
           usage = [i \in Ids |-> IF i = 1 THEN h1 ELSE IF i = 2 THEN h2 ELSE <<>>]
    /\ everUnpreserved = {id \in StoredIds : ~ emotes[id].preserve}
    /\ discord = [id \in StoredIds |->
                    [guild |-> StoredRow(id).guild, name |-> StoredRow(id).name,
                     animated |-> StoredRow(id).animated]]
    /\ backlog = StoredBacklog(StoredIds)
    /\ nextId = Cardinality(StoredIds) + 1
    /\ user_opt = EmptyFunction
    /\ guild_opt = EmptyFunction
    /\ task = [p \in Procs |-> Idle]
    /\ started = 0
    /\ decay = [Sleeping EXCEPT !.pc = "ready"]
    /\ NoCursors
    /\ overlap = 0
    /\ NoGuilds

NextSel == decay_scan

SpecSel == InitSel /\ [][NextSel]_vars

\* What the claim C3 asks of an emote, stated on the store: created strictly
\* before the cutoff (now minus the configured window), not preserved, and
\* strictly fewer events after the cutoff than the configured threshold.
Qualifies(id) ==
    LET cutoff == now - config.time
        Recent(t) == t > cutoff
    IN  /\ emotes[id].created < cutoff
        /\ ~ emotes[id].preserve
        /\ Len(SelectSeq(usage[id], Recent)) < config.usage

\* C3: the rows decay()'s query returns are those of exactly the emotes that
\* were created before the cutoff, are not preserved, and have fewer usage
\* events after the cutoff than the threshold, the window and the threshold
\* being those of the configuration (4 weeks and 2 when it names none).
C3_DecaySelection ==
    [][decay_scan =>
         /\ \A c \in decay'.candidates : c.id \in DOMAIN emotes
         /\ \A id \in DOMAIN emotes :
                (\E c \in decay'.candidates : c.id = id) <=> Qualifies(id)]_vars

\* The claim's example: under the default configuration an emote created 5
\* weeks ago, not preserved, used once since the cutoff, was selected.
C3_Witness ==
    /\ config.time = DefaultCutoffTime /\ config.usage = DefaultCutoffUsage
    /\ now = 5 /\ emotes[1].created = 0 /\ ~ emotes[1].preserve
    /\ Len(usage[1]) = 2 /\ usage[1][1] <= 1 /\ usage[1][2] > 1
    /\ decay.pc = "iterate"
    /\ \E c \in decay.candidates : c.id = 1 /\ c.usage = 1

(***************************************************************************)
(* The decay loop beside the clock, the usage log and the preserve flag    *)
(* (SpecDecay)                                                             *)
(***************************************************************************)

\* Two emotes, each preserved or not: emote 1 made 4 weeks ago and used then,
\* emote 2 made 2 weeks ago and unused.
InitDecay ==
    /\ now = DefaultCutoffTime
    /\ \E raw \in RawConfigs : config = ProcessDecayConfig(raw)
    /\ \E preserve \in [StoredIds -> BOOLEAN] :
           emotes = [id \in StoredIds |->
                       [StoredRow(id) EXCEPT !.preserve = preserve[id],
                                             !.created = IF id = 1 THEN 0 ELSE 2]]
    /\ usage = [i \in Ids |-> IF i = 1 THEN <<0>> ELSE <<>>]
    /\ everUnpreserved = {id \in StoredIds : ~ emotes[id].preserve}
    /\ discord = [id \in StoredIds |->
                    [guild |-> StoredRow(id).guild, name |-> StoredRow(id).name,
                     animated |-> StoredRow(id).animated]]
    /\ backlog = StoredBacklog(StoredIds)
    /\ nextId = Cardinality(StoredIds) + 1
    /\ user_opt = EmptyFunction
    /\ guild_opt = EmptyFunction
    /\ task = [p \in Procs |-> Idle]
    /\ started = 0
    /\ decay = Sleeping
    /\ NoCursors
    /\ overlap = 0
    /\ NoGuilds

NextDecay ==
    \/ Tick
    \/ \E emote_id \in Ids, user_id \in Users : log_emote_use(emote_id, user_id)
    \/ \E name \in Names, should_preserve \in BOOLEAN :
           set_emote_preservation(name, should_preserve)
    \/ \E enabled \in BOOLEAN : set_decay_enabled(enabled)
    \/ decay_wake
    \/ decay_scan
    \/ decay_notify
    \/ decay_remove_http
    \/ decay_remove_delete
    \/ decay_done

SpecDecay == InitDecay /\ [][NextDecay]_vars

\* C4: over any number of decay passes, decay deletes only emotes that have
\* been unpreserved at some time: an emote whose preserve flag has been true
\* throughout is never deleted by decay.
C4_PreservedNeverDecayed ==
    [][decay_remove_delete =>
         \A id \in DOMAIN emotes : id \notin DOMAIN emotes' => id \in everUnpreserved]_vars

\* A decay pass ended having deleted emote 2, while emote 1, preserved
\* throughout, is still there although it is old enough and unused enough to
\* be selected.
C4_Witness ==
    /\ decay.pc = "sleep"
    /\ decay.posted = {2}
    /\ 2 \notin DOMAIN emotes
    /\ 1 \in DOMAIN emotes /\ emotes[1].preserve /\ 1 \notin everUnpreserved
    /\ emotes[1].created < now - config.time
    /\ Len(SelectSeq(usage[1], LAMBDA t : t > now - config.time)) < config.usage

\* decay() is between its query and the end of its cursor.
Scanning == decay.pc \in {"iterate", "http", "delete"}

\* C14: when delete_custom_emoji fails for a candidate of a decay pass, the
\* candidate's row stays, the notice posted for it is taken back, and the
\* pass goes on with the candidates that remain.
C14_FailureDoesNotAbort ==
    [][(/\ decay.pc = "http"
        /\ decay' # decay
        /\ decay'.pc # "delete")
       => /\ emotes' = emotes
          /\ decay.emote[1].id \notin decay'.posted
          /\ decay'.pc = "iterate"
          /\ decay'.candidates = decay.candidates]_vars

\* delete_custom_emoji has failed for emote 2 while emote 1, selected in the
\* same pass, had not had its turn: the loop has ended, the notice for
\* emote 2 stands, and both rows and both emotes at Discord are there.
C14_Witness ==
    /\ decay.pc = "crashed"
    /\ decay.emote # NULL /\ decay.emote[1].id = 2
    /\ decay.posted = {2}
    /\ DOMAIN emotes = {1, 2}
    /\ DOMAIN discord = {1, 2}
    /\ emotes[1].created < now - config.time
    /\ ~ emotes[1].preserve

\* C15: a scan starts only from the loop's wait for readiness, with nothing
\* of an earlier pass pending (no candidate left to process, no removal
\* under way), and while a pass is in progress the loop does not come back
\* to that wait.
C15_OneScanAtATime ==
    [][/\ decay_scan => ~ Scanning /\ decay.candidates = {} /\ decay.emote = NULL
       /\ (decay'.candidates \ decay.candidates # {}) => decay_scan
       /\ Scanning => decay'.pc # "ready"]_vars

\* A pass is at its Discord call for emote 2, with emote 1 still to come,
\* decay enabled and the clock past the start of the loop: a poll falling due
\* now finds the loop busy.
C15_Witness ==
    /\ decay.pc = "http"
    /\ decay.emote[1].id = 2
    /\ \E c \in decay.candidates : c.id = 1
    /\ config.enabled
    /\ now > DefaultCutoffTime

\* C16: the loop never stops on its own: it is asleep, waiting for
\* readiness or in a pass, and the step that follows a Discord call of a
\* pass, failed or not, keeps it in the pass or takes it back to sleep.
C16_LoopNeverStops ==
    decay.pc \in {"sleep", "ready", "iterate", "http", "delete"}

\* The loop has ended where delete_custom_emoji failed, with decay enabled.
C16_Witness ==
    /\ decay.pc = "crashed"
    /\ config.enabled
    /\ decay.posted # {}

\* C29: decay deletes no emote whose row has preserve set at the moment of
\* the deletion, at Discord or in the store, even when
\* set_emote_preservation(name, True) ended after the cursor's query had
\* selected the emote.
C29_PreservedAtDeletionSurvives ==
    [][\A id \in DOMAIN emotes :
          (id \in DOMAIN discord \ DOMAIN discord' \/ id \notin DOMAIN emotes')
          => ~ emotes[id].preserve]_vars

\* Emote 2 was selected unpreserved, then preserved, and decay has deleted
\* it at Discord and is about to delete its row.
C29_Witness ==
    /\ decay.pc = "delete"
    /\ decay.emote # NULL
    /\ decay.emote[1].id = 2
    /\ ~ decay.emote[1].preserve
    /\ 2 \in DOMAIN emotes
    /\ emotes[2].preserve
    /\ 2 \notin DOMAIN discord

(***************************************************************************)
(* The decay loop cancelled by __unload (SpecCancel)                       *)
(***************************************************************************)

NextCancel ==
    \/ NextDecay
    \/ decay_cancel

SpecCancel == InitDecay /\ [][NextCancel]_vars

\* C24: once decay_loop is cancelled, every emote that has a row is still
\* at Discord (the pass deleted no emote whose row remains), and every
\* emote a notice was posted for has lost its row (was evicted).
C24_CleanCancellation ==
    decay.pc = "cancelled"
    => /\ \A id \in DOMAIN emotes : id \in DOMAIN discord
       /\ \A id \in decay.posted : id \notin DOMAIN emotes

\* The loop was cancelled between remove_emote's Discord call and its
\* DELETE for emote 2: the emote is gone at Discord, its row is there, and
\* so is the notice of its decay.
C24_Witness ==
    /\ decay.pc = "cancelled"
    /\ decay.emote # NULL /\ decay.emote[1].id = 2
    /\ 2 \in DOMAIN emotes
    /\ 2 \notin DOMAIN discord
    /\ 2 \in decay.posted

(***************************************************************************)
(* The options under toggles, blacklisting and reads (SpecPrefs)           *)
(***************************************************************************)

\* The reasons a user is blacklisted with in SpecPrefs; None clears.
PrefReasons == Reasons \cup {Some("")}

InitPrefs ==
    /\ InitStore({})
    /\ user_opt = EmptyFunction
    /\ guild_opt = EmptyFunction
    /\ task = [p \in Procs |-> Idle]
    /\ now = 0
    /\ started = 0
    /\ config = ProcessDecayConfig(RawConfig("absent", NULL, NULL, NULL))
    /\ decay = Sleeping
    /\ NoCursors
    /\ overlap = 0
    /\ NoGuilds

NextPrefs ==
    \/ \E p \in Procs, user_id \in Users, guild_id \in Guilds \cup {None} :
           toggle_user_state(p, user_id, guild_id)
    \/ \E p \in Procs : toggle_user_toggle(p)
    \/ \E p \in Procs, guild_id \in Guilds : toggle_guild_state(p, guild_id)
    \/ \E user_id \in Users, reason \in PrefReasons :
           set_user_blacklist(user_id, reason) /\ UNCHANGED started
    \/ \E p \in Procs, guild_id \in Guilds, user_id \in Users :
           call_get_state(p, guild_id, user_id)
    \/ \E p \in Procs, guild_id \in Guilds, user_id \in Users :
           cogs_get_state(p, guild_id, user_id)
    \/ \E p \in Procs : cogs_get_state_user(p)

SpecPrefs == InitPrefs /\ [][NextPrefs]_vars

\* The precedence the claim C5 states, on what a call has read: false for a
\* user with a blacklist reason; else the user's state if set; else the
\* guild's state if set; else true.
Precedence(blacklist_reason, user_state, guild_state) ==
    IF blacklist_reason # NULL THEN FALSE
    ELSE IF user_state # NULL THEN user_state[1]
    ELSE IF guild_state # NULL THEN guild_state[1]
    ELSE TRUE

\* C5, for get_state of extensions/db.py: in any store that toggles and
\* blacklistings have led to, the call returns false for a user with a
\* blacklist reason, else the user's state if set, else the guild's state if
\* set, else true.
C5_Coalesce ==
    [][\A p \in Procs, guild_id \in Guilds, user_id \in Users :
          call_get_state(p, guild_id, user_id) =>
              task'[p].res = << Precedence(get_user_blacklist(user_id),
                                           get_user_state(user_id),
                                           get_guild_state(guild_id)) >>]_vars

\* Every user is blacklisted while opted in, in guilds that are opted in, and
\* get_state of extensions/db.py answered false.
C5_Witness ==
    /\ \A u \in Users : get_user_blacklist(u) # NULL /\ get_user_state(u) = Some(TRUE)
    /\ \A g \in Guilds : get_guild_state(g) = Some(TRUE)
    /\ \E p \in Procs : task[p].op = "get_state" /\ task[p].res = <<FALSE>>

\* C17: toggle_user_state takes as default the opposite of the guild's
\* state if the guild has one, else false; its statement gives a user
\* without a row that default, gives a user with a state the opposite of
\* that state, touches no other user and no guild, and the call returns the
\* state now stored.
C17_ToggleUser ==
    [][\A p \in Procs :
          /\ (/\ task[p].pc = "idle"
              /\ task'[p].op = "toggle_user_state"
              /\ task'[p].pc = "toggle")
             => \A user_id \in Users, guild_id \in Guilds \cup {None} :
                   toggle_user_state(p, user_id, guild_id)
                   => /\ task'[p].user_id = user_id
                      /\ task'[p].state =
                           IF guild_id \in DOMAIN guild_opt /\ guild_opt[guild_id].state # NULL
                           THEN Some(~ guild_opt[guild_id].state[1])
                           ELSE Some(FALSE)
          /\ (/\ At(p, "toggle_user_state", "toggle")
              /\ task'[p] # task[p])
             => LET user_id == task[p].user_id IN
                /\ user_id \notin DOMAIN user_opt
                   => user_opt'[user_id].state = task[p].state
                /\ (user_id \in DOMAIN user_opt /\ user_opt[user_id].state # NULL)
                   => user_opt'[user_id].state = Some(~ user_opt[user_id].state[1])
                /\ task'[p].res = <<user_opt'[user_id].state>>
                /\ \A u \in DOMAIN user_opt \ {user_id} : user_opt'[u] = user_opt[u]
                /\ guild_opt' = guild_opt]_vars

\* User 1, without a row before, has toggled in guild 1, which is opted
\* out (state false): the call stored and returned true; user 2 has no row.
C17_Witness ==
    /\ DOMAIN user_opt = {1}
    /\ user_opt[1] = [state |-> Some(TRUE), blacklist_reason |-> NULL]
    /\ DOMAIN guild_opt = {1}
    /\ guild_opt[1].state = Some(FALSE)
    /\ \E p \in Procs : task[p].op = "toggle_user_state" /\ task[p].res = << Some(TRUE) >>

\* _toggle_state run n times for guild_id on the table guild_opt.
RECURSIVE Toggled(_, _, _)
Toggled(table, guild_id, n) ==
    IF n = 0 THEN table
    ELSE toggle_state(Toggled(table, guild_id, n - 1), guild_id, [state |-> Some(FALSE)])

\* From any table reached: three toggles of an unset guild give false, true,
\* false, and two toggles of a guild with a state give that state again.
C18_Successive ==
    \A guild_id \in Guilds :
        IF guild_id \notin DOMAIN guild_opt
        THEN /\ Toggled(guild_opt, guild_id, 1)[guild_id].state = Some(FALSE)
             /\ Toggled(guild_opt, guild_id, 2)[guild_id].state = Some(TRUE)
             /\ Toggled(guild_opt, guild_id, 3)[guild_id].state = Some(FALSE)
        ELSE /\ guild_opt[guild_id].state # NULL
             /\ Toggled(guild_opt, guild_id, 1) # guild_opt
             /\ Toggled(guild_opt, guild_id, 2) = guild_opt

\* C18: toggle_guild_state gives an unset guild the state false and a guild
\* with a state the opposite state, returns the state now stored, and
\* changes no other guild's row and no user's row; hence toggles from unset
\* give false, true, false, ... and two toggles in a row restore a state.
C18_ToggleGuild ==
    /\ []C18_Successive
    /\ [][\A p \in Procs :
             (/\ task[p].pc = "idle"
              /\ task'[p].op = "toggle_guild_state")
             => \A guild_id \in Guilds :
                   toggle_guild_state(p, guild_id)
                   => /\ guild_opt'[guild_id].state =
                           IF guild_id \in DOMAIN guild_opt
                           THEN Some(~ guild_opt[guild_id].state[1])
                           ELSE Some(FALSE)
                      /\ task'[p].res = <<guild_opt'[guild_id].state>>
                      /\ \A g \in DOMAIN guild_opt \ {guild_id} : guild_opt'[g] = guild_opt[g]
                      /\ DOMAIN guild_opt' = DOMAIN guild_opt \cup {guild_id}
                      /\ user_opt' = user_opt]_vars

\* Guild 1 has been toggled to true (so at least twice) and the call
\* returned true, while guild 2 is opted out, user 1 is opted in and user 2
\* is blacklisted without a state.
C18_Witness ==
    /\ DOMAIN guild_opt = {1, 2}
    /\ guild_opt[1].state = Some(TRUE)
    /\ guild_opt[2].state = Some(FALSE)
    /\ DOMAIN user_opt = {1, 2}
    /\ user_opt[1].state = Some(TRUE)
    /\ user_opt[2] = [state |-> NULL, blacklist_reason |-> Some("spam")]
    /\ \E p \in Procs : task[p].op = "toggle_guild_state" /\ task[p].res = << Some(TRUE) >>

\* C26: get_state of cogs/db.py returns what get_state of extensions/db.py
\* returns on the same rows (the guild's state it read first being the one
\* still stored when it reads the user's).
C26_SameResolve ==
    [][\A p \in Procs :
          (/\ At(p, "cogs_get_state", "user")
           /\ task'[p] # task[p]
           /\ task[p].state = get_guild_state(task[p].guild_id))
          => task'[p].res = get_state(task[p].guild_id, task[p].user_id)]_vars

\* C27: the statement of toggle_user_state, run for a user without a
\* blacklist reason, leaves the user with a state that is true or false and
\* changes what get_state returns for the user in the guild of the call.
C27_ToggleAlwaysToggles ==
    [][\A p \in Procs : \A user_id \in Users, guild_id \in Guilds \cup {None} :
          (/\ At(p, "toggle_user_state", "toggle")
           /\ task'[p] # task[p]
           /\ task[p].user_id = user_id
           /\ task[p].guild_id = guild_id
           /\ get_user_blacklist(user_id) = NULL)
          => /\ user_opt'[user_id].state \in {Some(TRUE), Some(FALSE)}
             /\ get_state(guild_id, user_id)' # get_state(guild_id, user_id)]_vars

\* User 1, whose row was made by a blacklisting since cleared, has toggled:
\* the call returned None and the row's state is still unset.
C27_Witness ==
    /\ 1 \in DOMAIN user_opt
    /\ user_opt[1] = [state |-> NULL, blacklist_reason |-> NULL]
    /\ 2 \notin DOMAIN user_opt
    /\ \E p \in Procs : task[p].op = "toggle_user_state" /\ task[p].res = <<NULL>>

(***************************************************************************)
(* The requests that change a field of a row (SpecFields)                  *)
(***************************************************************************)

NextFields ==
    \/ \E p \in Procs, old_name \in Names, new_name \in Names, user_id \in Users \cup {None} :
           rename_emote(p, old_name, new_name, user_id)
    \/ \E p \in Procs : rename_get(p)
    \/ \E p \in Procs : rename_http(p)
    \/ \E p \in Procs : rename_update(p)
    \/ \E p \in Procs, name \in Names, user_id \in Users \cup {None}, description \in Descriptions :
           set_emote_description(p, name, user_id, description)
    \/ \E p \in Procs : describe_update(p)
    \/ \E name \in Names, should_preserve \in BOOLEAN :
           set_emote_preservation(name, should_preserve)
    \/ \E p \in Procs, name \in Names, by_mod \in BOOLEAN : nsfw_get_emote(p, name, by_mod)
    \/ \E p \in Procs : toggle_emote_nsfw(p)
    \/ \E p \in Procs, name \in Names, user_id \in Users \cup {None} :
           remove_emote(p, name, user_id)
    \/ \E p \in Procs : remove_http(p)
    \/ \E p \in Procs : remove_delete(p)

SpecFields == Init /\ [][NextFields]_vars

\* The rows f and g differ in no field but those of `fields`.
SameBut(f, g, fields) ==
    \A k \in DOMAIN f \ fields : f[k] = g[k]

\* C23: no step changes the id, the author or the kind of a row; the UPDATE
\* of rename_emote changes nothing but the name of its row, that of
\* set_emote_description nothing but the description, that of
\* set_emote_preservation nothing but preserve, that of toggle_emote_nsfw
\* nothing but nsfw; each leaves the other rows as they are and removes or
\* adds none.
C23_FieldFrames ==
    [][/\ \A id \in DOMAIN emotes \cap DOMAIN emotes' :
             /\ emotes'[id].id = id /\ emotes[id].id = id
             /\ emotes'[id].author = emotes[id].author
             /\ emotes'[id].animated = emotes[id].animated
       /\ \A p \in Procs :
             (task'[p] # task[p] /\ task[p].pc = "update")
             => LET id == task[p].emote[1].id
                    field == CASE task[p].op = "rename" -> "name"
                               [] task[p].op = "describe" -> "description"
                               [] task[p].op = "nsfw" -> "nsfw"
                IN  /\ DOMAIN emotes' = DOMAIN emotes
                    /\ \A i \in DOMAIN emotes \ {id} : emotes'[i] = emotes[i]
                    /\ id \in DOMAIN emotes => SameBut(emotes'[id], emotes[id], {field})
       /\ \A name \in Names, should_preserve \in BOOLEAN :
             (started' # started /\ task' = task /\ set_emote_preservation(name, should_preserve))
             => /\ DOMAIN emotes' = DOMAIN emotes
                /\ \A i \in DOMAIN emotes :
                      IF LOWER(emotes[i].name) = LOWER(name)
                      THEN /\ SameBut(emotes'[i], emotes[i], {"preserve"})
                           /\ emotes'[i].preserve = should_preserve
                      ELSE emotes'[i] = emotes[i]]_vars

\* Emote 1 has been renamed and marked NSFW by its author, and is otherwise
\* the row that was stored; emote 2 is as it was stored.
C23_Witness ==
    /\ started = 2
    /\ DOMAIN emotes = {1, 2}
    /\ emotes[1] = [StoredRow(1) EXCEPT !.name = "foo", !.nsfw = "SELF_NSFW"]
    /\ emotes[2] = StoredRow(2)
    /\ \A p \in Procs : task[p].pc = "idle"

\* What the claim C25 has a toggle make of a stored status: the new status,
\* or "refused" for a non-moderator on MOD_NSFW.
Toggle(status, by_mod) ==
    IF by_mod THEN (IF status = "SFW" THEN "MOD_NSFW" ELSE "SFW")
    ELSE CASE status = "SFW" -> "SELF_NSFW"
           [] status = "SELF_NSFW" -> "SFW"
           [] status = "MOD_NSFW" -> "refused"

\* C25: nsfw is always SFW, SELF_NSFW or MOD_NSFW, and the UPDATE of a
\* toggle makes of the status stored exactly what the claim's table says:
\* refused (BadArgument, the status kept) for a non-moderator on MOD_NSFW,
\* else the new status.
C25_NsfwTransitions ==
    /\ [](\A id \in DOMAIN emotes : emotes[id].nsfw \in NsfwStatuses)
    /\ [][\A p \in Procs :
             (/\ At(p, "nsfw", "update")
              /\ task'[p] # task[p]
              /\ task[p].emote[1].id \in DOMAIN emotes)
             => LET id == task[p].emote[1].id
                    new == Toggle(emotes[id].nsfw, task[p].by_mod)
                IN  IF new = "refused"
                    THEN task'[p].res = <<"BadArgument">> /\ emotes'[id].nsfw = emotes[id].nsfw
                    ELSE task'[p].res = <<"ok", new>> /\ emotes'[id].nsfw = new]_vars

\* The status is always one of the three, and a toggle makes of the status
\* of the emote it was passed what the claim's table says.
C25_OnTheEmotePassed ==
    /\ [](\A id \in DOMAIN emotes : emotes[id].nsfw \in NsfwStatuses)
    /\ [][\A p \in Procs :
             (/\ At(p, "nsfw", "update")
              /\ task'[p] # task[p]
              /\ task[p].emote[1].id \in DOMAIN emotes)
             => LET id == task[p].emote[1].id
                    new == Toggle(task[p].emote[1].nsfw, task[p].by_mod)
                IN  IF new = "refused"
                    THEN task'[p].res = <<"BadArgument">> /\ emotes'[id].nsfw = emotes[id].nsfw
                    ELSE task'[p].res = <<"ok", new>> /\ emotes'[id].nsfw = new]_vars

\* Emote 1, stored as SFW, was read by a moderator's toggle and by another
\* user's toggle before either wrote: the moderator stored MOD_NSFW, then
\* the other toggle stored SELF_NSFW over it.
C25_Witness ==
    /\ started = 2
    /\ 1 \in DOMAIN emotes
    /\ emotes[1].nsfw = "SELF_NSFW"
    /\ \E p, q \in Procs :
          /\ task[p].op = "nsfw" /\ task[p].res = <<"ok", "MOD_NSFW">>
          /\ task[q].op = "nsfw" /\ task[q].res = <<"ok", "SELF_NSFW">>

(***************************************************************************)
(* The calls of find_backend_guilds (SpecGuilds)                           *)
(***************************************************************************)

InitGuilds ==
    /\ InitStore({})
    /\ user_opt = EmptyFunction
    /\ guild_opt = EmptyFunction
    /\ task = [p \in Procs |-> Idle]
    /\ now = 0
    /\ started = 0
    /\ config = ProcessDecayConfig(RawConfig("absent", NULL, NULL, NULL))
    /\ decay = Sleeping
    /\ NoCursors
    /\ overlap = 0
    /\ NoGuilds

NextGuilds ==
    \/ \E f \in Finders : find_backend_guilds(f)
    \/ \E f \in Finders : find_enumerate(f)
    \/ \E f \in Finders : find_insert(f)
    \/ \E f \in Finders : find_publish(f)

SpecGuilds == InitGuilds /\ [][NextGuilds]_vars

\* C19: 'backend_guild_enumeration' is dispatched at most once, and a call
\* of find_backend_guilds made when another call has started, or has
\* published (an empty set included), returns without enumerating.
C19_EnumeratedOnce ==
    /\ Len(dispatched) <= 1
    /\ Cardinality({f \in Finders : finder[f].pc \notin {"idle", "returned"}}) <= 1

\* The first call published the empty set; a call made after that has
\* enumerated again and dispatched a second event.
C19_Witness ==
    /\ Len(dispatched) = 2
    /\ dispatched[1] = {}
    /\ dispatched[2] = {1}
    /\ guilds = Some({1})
    /\ backend = {1}

(***************************************************************************)
(* Traversals of cursors sharing the pool (SpecCursor)                     *)
(***************************************************************************)

InitCursor ==
    /\ InitStore({})
    /\ user_opt = EmptyFunction
    /\ guild_opt = EmptyFunction
    /\ task = [p \in Procs |-> Idle]
    /\ now = 0
    /\ started = 0
    /\ config = ProcessDecayConfig(RawConfig("absent", NULL, NULL, NULL))
    /\ decay = Sleeping
    /\ NoCursors
    /\ overlap = 0
    /\ NoGuilds

NextCursor ==
    \/ \E c \in Consumers, rows \in 0 .. MaxRows : cursor_open(c, rows)
    \/ \E c \in Consumers : cursor_acquire(c)
    \/ \E c \in Consumers : cursor_begin(c)
    \/ \E c \in Consumers : cursor_fetch(c)
    \/ \E c \in Consumers : consumer_next(c)
    \/ \E c \in Consumers, exit \in {"stopped", "raised"} : consumer_stop(c, exit)
    \/ \E c \in Consumers : finalize_outer(c)
    \/ \E c \in Consumers : finalize_inner(c)
    \/ \E c \in Consumers : cursor_commit(c)
    \/ \E c \in Consumers : cursor_rollback(c)
    \/ \E c \in Consumers : cursor_release(c)

\* The event loop runs every aclose() it has scheduled, and the database
\* answers ROLLBACK and the release of a connection.
SpecCursor ==
    /\ InitCursor
    /\ [][NextCursor]_vars
    /\ \A c \in Consumers :
           /\ WF_vars(finalize_outer(c))
           /\ WF_vars(finalize_inner(c))
           /\ WF_vars(cursor_rollback(c))
           /\ WF_vars(cursor_release(c))

\* C10: a traversal, while rows are asked of it and given, holds one
\* connection of the pool and one open transaction; when the consumer's loop
\* has ended by exhaustion or by an exception of the query, both are released;
\* when the consumer stops early (break, or an exception of its own) and lets
\* go of the iterator, both are released in the end; and whenever no
\* traversal is under way the pool has all its connections.
C10_CursorReleases ==
    /\ [](\A c \in Consumers :
            /\ cursor[c].pc \in {"fetch", "body"} => cursor[c].conn /\ cursor[c].tx
            /\ cursor[c].pc = "ended" => ~ cursor[c].conn /\ ~ cursor[c].tx)
    /\ [](pool + Cardinality({c \in Consumers : cursor[c].conn}) = PoolSize)
    /\ \A c \in Consumers :
           cursor[c].pc = "aclose_outer" ~>
               (cursor[c].pc = "ended" /\ ~ cursor[c].conn /\ ~ cursor[c].tx)

\* A consumer took the first of several rows, stopped and let go of the
\* iterator; its traversal has ended and the pool is whole again.
C10_Witness ==
    \E c \in Consumers :
        /\ cursor[c].pc = "ended"
        /\ cursor[c].exit = "stopped"
        /\ cursor[c].taken = 1 /\ cursor[c].rows > 0
        /\ pool = PoolSize

====
